---- MODULE Spec2Model ----
(***************************************************************************)
(* Model of backend/ai_analyzer_backend.py: the rule-based Hebrew affect   *)
(* scoring engine (HebrewEmotionAnalyzer), its configuration loading and   *)
(* the lazily constructed module-level analyzer.                           *)
(*                                                                         *)
(* Representation.                                                         *)
(*  - A Python str is a sequence of characters.  A Hebrew letter is        *)
(*    written by its Unicode name ("alef", "bet", ..., final forms with    *)
(*    the suffix _f), an ASCII character by itself, U+2026 as "hellip".    *)
(*  - A Python float is a fixed-point integer counting thousandths         *)
(*    (Scale); every weight of the modelled configurations is a multiple   *)
(*    of 0.05, for which all products of the code (x1.2, x0.8, x0.6,       *)
(*    x0.5, x0.3) are whole thousandths.  confidence is the exact          *)
(*    fraction num/den.                                                    *)
(*  - A dict is a sequence of [key, value] entries in insertion order.     *)
(***************************************************************************)
EXTENDS Integers, Sequences, FiniteSets, TLC

\* one unit of the fixed-point representation of floats is 1/Scale
Scale == 1000

-----------------------------------------------------------------------------
(* Python str operations used by the analyzer *)

\* str.isspace of one character (the whitespace str.strip and str.split remove)
IsSpace(c) == c \in {" ", "\t", "\n"}

\* str.lower of one character: Hebrew letters and punctuation have no case
LowerChar(c) ==
  CASE c = "O" -> "o"
    [] c = "K" -> "k"
    [] OTHER -> c

\* str.lower
Lower(s) == [i \in 1..Len(s) |-> LowerChar(s[i])]

\* p in s  (substring containment; the empty string is contained in every string)
Contains(p, s) ==
  \E i \in 1..(Len(s) - Len(p) + 1) : \A j \in 1..Len(p) : s[i + j - 1] = p[j]

\* s[i:] starts with p
MatchAt(p, s, i) ==
  /\ i + Len(p) - 1 <= Len(s)
  /\ \A j \in 1..Len(p) : s[i + j - 1] = p[j]

RECURSIVE CountFrom(_, _, _)
\* number of non-overlapping occurrences of p in s[i:], scanning left to right
CountFrom(s, p, i) ==
  IF i + Len(p) - 1 > Len(s) THEN 0
  ELSE IF MatchAt(p, s, i) THEN 1 + CountFrom(s, p, i + Len(p))
  ELSE CountFrom(s, p, i + 1)

\* s.count(p) for a non-empty p
Count(s, p) == CountFrom(s, p, 1)

\* s.strip(): leading and trailing whitespace removed
Strip(s) ==
  LET keep == {i \in 1..Len(s) : ~IsSpace(s[i])}
  IN  IF keep = {} THEN <<>>
      ELSE LET lo == CHOOSE i \in keep : \A k \in keep : i <= k
               hi == CHOOSE i \in keep : \A k \in keep : k <= i
           IN  SubSeq(s, lo, hi)

\* the positions at which a word of s.split() starts
WordStarts(s) ==
  {i \in 1..Len(s) : ~IsSpace(s[i]) /\ (i = 1 \/ IsSpace(s[i - 1]))}

\* len(s.split())
WordCount(s) == Cardinality(WordStarts(s))

\* the length of the word of s.split() that starts at position i
WordLenAt(s, i) ==
  LET ends == {k \in i..Len(s) : k = Len(s) \/ IsSpace(s[k + 1])}
  IN  (CHOOSE k \in ends : \A m \in ends : k <= m) - i + 1

RECURSIVE SumSeq(_)
\* sum(...) over a sequence of numbers
SumSeq(q) == IF q = <<>> THEN 0 ELSE Head(q) + SumSeq(Tail(q))

\* the number of entries of the list that the predicate-set hits: sum(1 for x in lst if x in s)
Hits(lst, s) == Cardinality({i \in 1..Len(lst) : Contains(lst[i], s)})

Min(a, b) == IF a <= b THEN a ELSE b
Max(a, b) == IF a >= b THEN a ELSE b

-----------------------------------------------------------------------------
(* The literal tables of the analyzer *)

\* _map_categories_to_emotions:201-223  category -> emotion label (a Hebrew string), in the table's order
emotion_mapping ==
  <<[category |-> "humor_indicators", emotion |-> <<"shin", "ayin", "shin", "vav", "ayin">>],
    [category |-> "happiness_indicators", emotion |-> <<"shin", "mem", "het", "he">>],
    [category |-> "joy_indicators", emotion |-> <<"shin", "mem", "het", "he">>],
    [category |-> "sadness_indicators", emotion |-> <<"ayin", "tsadi", "bet">>],
    [category |-> "anger_indicators", emotion |-> <<"kaf", "ayin", "samekh">>],
    [category |-> "fear_indicators", emotion |-> <<"pe", "het", "dalet">>],
    [category |-> "surprise_indicators", emotion |-> <<"he", "pe", "tav", "ayin", "he">>],
    [category |-> "curiosity_indicators", emotion |-> <<"samekh", "qof", "resh", "nun", "vav", "tav">>],
    [category |-> "disgust_indicators", emotion |-> <<"gimel", "vav", "ayin", "lamed">>],
    [category |-> "frustration_indicators", emotion |-> <<"tav", "samekh", "kaf", "vav", "lamed">>],
    [category |-> "excitement_indicators", emotion |-> <<"he", "tav", "resh", "gimel", "shin", "vav", "tav">>],
    [category |-> "love_indicators", emotion |-> <<"alef", "he", "bet", "he">>],
    [category |-> "anxiety_indicators", emotion |-> <<"het", "resh", "dalet", "he">>],
    [category |-> "hope_indicators", emotion |-> <<"tav", "qof", "vav", "vav", "he">>],
    [category |-> "pride_indicators", emotion |-> <<"gimel", "alef", "vav", "vav", "he">>],
    [category |-> "admiration_indicators", emotion |-> <<"he", "ayin", "resh", "tsadi", "he">>],
    [category |-> "amusement_indicators", emotion |-> <<"shin", "ayin", "shin", "vav", "ayin">>],
    [category |-> "annoyance_indicators", emotion |-> <<"ayin", "tsadi", "bet", "nun", "vav", "tav">>],
    [category |-> "approval_indicators", emotion |-> <<"alef", "yod", "shin", "vav", "resh">>],
    [category |-> "awe_indicators", emotion |-> <<"yod", "resh", "alef", "tav", " ", "kaf", "bet", "vav", "dalet">>],
    [category |-> "caring_indicators", emotion |-> <<"dalet", "alef", "gimel", "he">>]>>

\* _calculate_blur:251-251
unclear_patterns ==
  <<<<"alef", "mem", ".", ".", ".">>,
    <<"alef", "he", ".", ".", ".">>,
    <<"lamed", "alef", " ", "he", "bet", "nun", "tav", "yod">>,
    <<"mem", "he", "?">>,
    <<"he", "alef", "?">>>>

\* _calculate_shine:270-270
important_words ==
  <<<<"het", "shin", "vav", "bet">>,
    <<"mem", "shin", "mem", "ayin", "vav", "tav", "yod">>,
    <<"mem", "kaf", "resh", "yod", "ayin">>,
    <<"he", "kaf", "resh", "zayin", "he">>,
    <<"he", "het", "lamed", "tet", "he">>,
    <<"he", "vav", "dalet", "ayin", "he">>>>

\* _calculate_shine:276  category ids
strong_emotions ==
  <<"pride_indicators", "admiration_indicators", "excitement_indicators">>

\* _calculate_shine:285-285
achievement_words ==
  <<<<"he", "tsadi", "lamed", "het", "tav", "yod">>,
    <<"nun", "yod", "tsadi", "het", "tav", "yod">>,
    <<"he", "shin", "gimel", "tav", "yod">>,
    <<"gimel", "alef", "he">>>>

\* _calculate_humor:297-297
strong_humor_words ==
  <<<<"mem", "tsadi", "het", "yod", "qof">>,
    <<"qof", "vav", "resh", "ayin">>,
    <<"bet", "dalet", "yod", "het", "he">>,
    <<"qof", "vav", "mem", "dalet", "yod", "he">>,
    <<"tsadi", "het", "qof", "tav", "yod">>>>

\* _calculate_blobiness:332-336
existential_themes ==
  <<<<"mem", "he", " ", "he", "mem", "shin", "mem", "ayin", "vav", "tav">>,
    <<"lamed", "mem", "he", " ", "alef", "nun", "yod", " ", "kaf", "alef", "nun_f">>,
    <<"mem", "he", " ", "he", "tav", "kaf", "lamed", "yod", "tav">>,
    <<"mem", "he", " ", "he", "nun", "qof", "vav", "dalet", "he">>,
    <<"alef", "yod", "kaf_f", " ", "zayin", "he", " ", "yod", "gimel", "mem", "resh">>,
    <<"mem", "he", " ", "qof", "vav", "resh", "he", " ", "alef", "het", "resh", "yod", " ", "he", "mem", "vav", "vav", "tav">>,
    <<"yod", "shin", " ", "alef", "lamed", "vav", "he", "yod", "mem_f">>,
    <<"mem", "he", " ", "zayin", "he", " ", "alef", "vav", "shin", "resh">>,
    <<"mem", "he", " ", "zayin", "he", " ", "alef", "he", "bet", "he", " ", "alef", "mem", "yod", "tav", "yod", "tav">>,
    <<"pe", "yod", "lamed", "vav", "samekh", "vav", "pe", "yod", "he">>,
    <<"mem", "shin", "mem", "ayin", "vav", "tav", " ", "he", "het", "yod", "yod", "mem_f">>,
    <<"tav", "kaf", "lamed", "yod", "tav", " ", "he", "qof", "yod", "vav", "mem_f">>,
    <<"resh", "vav", "het", "nun", "yod", "vav", "tav", " ", "ayin", "mem", "vav", "qof", "he">>>>

\* _calculate_blobiness:339-343
personal_struggles ==
  <<<<"alef", "nun", "yod", " ", "samekh", "vav", "bet", "lamed">>,
    <<"kaf", "lamed", " ", "kaf", "kaf_f", " ", "qof", "shin", "he", " ", "lamed", "yod">>,
    <<"alef", "nun", "yod", " ", "nun", "shin", "bet", "resh">>,
    <<"lamed", "alef", " ", "yod", "kaf", "vav", "lamed", " ", "yod", "vav", "tav", "resh">>,
    <<"alef", "yod", "bet", "dalet", "tav", "yod", " ", "he", "kaf", "lamed">>,
    <<"he", "kaf", "yod", " ", "qof", "shin", "he", " ", "bet", "het", "yod", "yod", "mem_f">>,
    <<"resh", "vav", "tsadi", "he", " ", "lamed", "mem", "vav", "tav">>,
    <<"alef", "yod", "nun_f", " ", "lamed", "yod", " ", "kaf", "vav", "het">>,
    <<"he", "kaf", "lamed", " ", "nun", "gimel", "mem", "resh">>,
    <<"alef", "yod", "nun_f", " ", "tav", "qof", "vav", "vav", "he">>,
    <<"dalet", "yod", "kaf", "alef", "vav", "nun_f">>,
    <<"het", "resh", "dalet", "he", " ", "qof", "shin", "he">>,
    <<"he", "tav", "mem", "kaf", "resh", "vav", "tav">>,
    <<"bet", "ayin", "yod", "vav", "tav", " ", "mem", "shin", "pe", "het", "tav", "yod", "vav", "tav", " ", "qof", "shin", "vav", "tav">>,
    <<"gimel", "yod", "resh", "vav", "shin", "yod", "mem_f">>>>

\* _calculate_blobiness:346-351
emotional_vulnerability ==
  <<<<"alef", "nun", "yod", " ", "pe", "het", "dalet">>,
    <<"lamed", "alef", " ", "bet", "tet", "vav", "het", " ", "bet", "ayin", "tsadi", "mem", "yod">>,
    <<"mem", "he", " ", "alef", "nun", "yod", " ", "ayin", "vav", "shin", "he", " ", "ayin", "mem_f", " ", "he", "het", "yod", "yod", "mem_f">>,
    <<"alef", "yod", "kaf_f", " ", "lamed", "he", "tav", "mem", "vav", "dalet", "dalet">>,
    <<"mem", "resh", "gimel", "yod", "shin", " ", "lamed", "bet", "dalet">>,
    <<"alef", "yod", "nun_f", " ", "lamed", "yod", " ", "mem", "yod", "shin", "he", "vav">>,
    <<"qof", "shin", "he", " ", "lamed", "yod", " ", "lamed", "bet", "tet", "vav", "het">>,
    <<"pe", "vav", "het", "dalet", " ", "mem", "he", "ayin", "tav", "yod", "dalet">>,
    <<"lamed", "alef", " ", "yod", "vav", "dalet", "ayin", " ", "mem", "he", " ", "lamed", "ayin", "shin", "vav", "tav">>,
    <<"mem", "bet", "vav", "lamed", "bet", "lamed", " ", "mem", "he", "het", "yod", "yod", "mem_f">>,
    <<"alef", "yod", "kaf_f", " ", "lamed", "bet", "het", "vav", "resh">>,
    <<"mem", "he", " ", "nun", "kaf", "vav", "nun_f">>,
    <<"bet", "vav", "shin", "he">>,
    <<"alef", "shin", "mem", "he">>,
    <<"het", "resh", "tet", "he">>,
    <<"pe", "het", "dalet", " ", "mem", "kaf", "yod", "shin", "lamed", "vav", "nun_f">>,
    <<"pe", "het", "dalet", " ", "mem", "dalet", "het", "yod", "yod", "he">>>>

\* _calculate_blobiness:354-358
life_transitions ==
  <<<<"nun", "yod", "shin", "vav", "alef", "yod", "mem_f">>,
    <<"he", "vav", "resh", "vav", "tav">>,
    <<"qof", "resh", "yod", "yod", "resh", "he">>,
    <<"mem", "ayin", "bet", "resh", " ", "dalet", "yod", "resh", "he">>,
    <<"shin", "yod", "nun", "vav", "yod", " ", "gimel", "dalet", "vav", "lamed", " ", "bet", "het", "yod", "yod", "mem_f">>,
    <<"bet", "het", "yod", "resh", "tav", " ", "mem", "qof", "tsadi", "vav", "ayin">>,
    <<"tsadi", "bet", "alef">>,
    <<"lamed", "yod", "mem", "vav", "dalet", "yod", "mem_f">>,
    <<"pe", "resh", "yod", "shin", "he">>,
    <<"gimel", "yod", "lamed", " ", "mem", "bet", "vav", "gimel", "resh">>,
    <<"alef", "vav", "bet", "dalet", "nun_f">>,
    <<"pe", "resh", "yod", "dalet", "he">>,
    <<"yod", "tsadi", "yod", "alef", "he", " ", "mem", "he", "bet", "yod", "tav">>,
    <<"ayin", "tsadi", "mem", "alef", "vav", "tav">>,
    <<"alef", "het", "resh", "yod", "vav", "tav">>>>

\* _calculate_blobiness:361-365
relationship_depth ==
  <<<<"alef", "he", "bet", "he", " ", "ayin", "mem", "vav", "qof", "he">>,
    <<"qof", "shin", "resh", " ", "resh", "vav", "mem", "nun", "tet", "yod">>,
    <<"zayin", "vav", "gimel", "yod", "vav", "tav">>,
    <<"yod", "dalet", "yod", "dalet", "vav", "tav", " ", "alef", "mem", "yod", "tav", "yod", "tav">>,
    <<"mem", "shin", "pe", "het", "he">>,
    <<"he", "vav", "resh", "yod", "mem_f">>,
    <<"yod", "lamed", "dalet", "yod", "mem_f">>,
    <<"alef", "mem", "vav", "nun_f">>,
    <<"bet", "gimel", "yod", "dalet", "he">>,
    <<"samekh", "lamed", "yod", "het", "he">>,
    <<"qof", "resh", "bet", "he", " ", "resh", "gimel", "shin", "yod", "tav">>,
    <<"het", "yod", "bet", "vav", "resh">>,
    <<"he", "bet", "nun", "he", " ", "he", "dalet", "dalet", "yod", "tav">>,
    <<"tav", "mem", "yod", "kaf", "he">>,
    <<"dalet", "alef", "gimel", "he">>>>

\* _calculate_blobiness:375-375
intense_emotions ==
  <<<<"a", "n", "g", "e", "r">>,
    <<"s", "a", "d", "n", "e", "s", "s">>,
    <<"f", "e", "a", "r">>,
    <<"g", "r", "i", "e", "f">>,
    <<"a", "n", "x", "i", "e", "t", "y">>,
    <<"l", "o", "v", "e">>,
    <<"e", "c", "s", "t", "a", "s", "y">>,
    <<"d", "e", "s", "p", "a", "i", "r">>>>

\* _calculate_blobiness:388-392
small_talk_phrases ==
  <<<<"mem", "he", " ", "shin", "lamed", "vav", "mem", "kaf_f">>,
    <<"alef", "yod", "kaf_f", " ", "he", "vav", "lamed", "kaf_f">>,
    <<"mem", "zayin", "gimel", " ", "alef", "vav", "vav", "yod", "resh">>,
    <<"het", "mem_f", " ", "he", "yod", "vav", "mem_f">>,
    <<"qof", "resh", " ", "he", "yod", "vav", "mem_f">>,
    <<"bet", "vav", "qof", "resh", " ", "tet", "vav", "bet">>,
    <<"lamed", "yod", "lamed", "he", " ", "tet", "vav", "bet">>,
    <<"shin", "bet", "tav", " ", "shin", "lamed", "vav", "mem_f">>,
    <<"alef", "yod", "kaf_f", " ", "he", "yod", "he">>,
    <<"mem", "he", " ", "het", "dalet", "shin">>,
    <<"mem", "he", " ", "alef", "kaf", "lamed", "tav">>,
    <<"alef", "yod", "kaf_f", " ", "he", "ayin", "bet", "vav", "dalet", "he">>,
    <<"mem", "he", " ", "he", "tav", "vav", "kaf", "nun", "yod", "vav", "tav">>,
    <<"kaf", "mem", "he", " ", "he", "shin", "ayin", "he">>>>

\* _calculate_proximity:431-431
strong_agreement ==
  <<<<"mem", "samekh", "kaf", "yod", "mem_f">>,
    <<"bet", "dalet", "yod", "vav", "qof">>,
    <<"nun", "kaf", "vav", "nun_f", " ", "mem", "alef", "vav", "dalet">>,
    <<"alef", "tav", "he", " ", "tsadi", "vav", "dalet", "qof">>,
    <<"alef", "tav", " ", "tsadi", "vav", "dalet", "qof", "tav">>>>

\* _calculate_proximity:437-437
strong_disagreement ==
  <<<<"lamed", "alef", " ", "mem", "samekh", "kaf", "yod", "mem_f">>,
    <<"alef", "tav", "he", " ", "tet", "vav", "ayin", "he">>,
    <<"alef", "tav", " ", "tet", "vav", "ayin", "he">>,
    <<"zayin", "he", " ", "lamed", "alef", " ", "nun", "kaf", "vav", "nun_f">>,
    <<"mem", "mem", "shin", " ", "lamed", "alef">>>>

\* calculate_auto_blob_spacing:465-468
mutual_understanding_phrases ==
  <<<<"alef", "nun", "yod", " ", "mem", "bet", "yod", "nun_f">>,
    <<"alef", "nun", "yod", " ", "mem", "bet", "yod", "nun", "he">>,
    <<"he", "bet", "nun", "tav", "yod">>,
    <<"bet", "resh", "vav", "resh", " ", "lamed", "yod">>,
    <<"alef", "tav", "he", " ", "tsadi", "vav", "dalet", "qof">>,
    <<"alef", "tav", " ", "tsadi", "vav", "dalet", "qof", "tav">>,
    <<"bet", "dalet", "yod", "vav", "qof">>,
    <<"nun", "kaf", "vav", "nun_f", " ", "mem", "alef", "vav", "dalet">>,
    <<"mem", "samekh", "kaf", "yod", "mem_f", " ", "lamed", "het", "lamed", "vav", "tet", "yod", "nun_f">>,
    <<"mem", "samekh", "kaf", "yod", "mem", "he", " ", "lamed", "het", "lamed", "vav", "tet", "yod", "nun_f">>>>

\* calculate_auto_blob_spacing:471-473
acceptance_phrases ==
  <<<<"alef", "vav", "qof", "yod", "yod">>,
    <<"bet", "samekh", "dalet", "resh">>,
    <<"yod", "pe", "he">>,
    <<"tet", "vav", "bet">>,
    <<"mem", "ayin", "vav", "lamed", "he">>,
    <<"nun", "he", "dalet", "resh">>,
    <<"kaf", "nun_f">>,
    <<"nun", "kaf", "vav", "nun_f">>>>

\* calculate_auto_blob_spacing:476-479
general_conversation_phrases ==
  <<<<"mem", "he", " ", "shin", "lamed", "vav", "mem", "kaf_f">>,
    <<"alef", "yod", "kaf_f", " ", "alef", "tav", "he">>,
    <<"alef", "yod", "kaf_f", " ", "alef", "tav">>,
    <<"bet", "vav", "qof", "resh", " ", "tet", "vav", "bet">>,
    <<"shin", "lamed", "vav", "mem_f">>,
    <<"mem", "he", " ", "het", "dalet", "shin">>,
    <<"alef", "yod", "kaf_f", " ", "he", "vav", "lamed", "kaf_f">>,
    <<"mem", "he", " ", "he", "ayin", "nun", "yod", "yod", "nun", "yod", "mem_f">>,
    <<"kaf", "mem", "he", " ", "zayin", "mem", "nun_f">>>>
-----------------------------------------------------------------------------
(* Configuration values (the result of json.load) and configuration loading *)

\* d.get(k, default) of a mapping modelled as a record: a key is a field
Get(d, k, default) == IF k \in DOMAIN d THEN d[k] ELSE default

\* a compiled regular expression: the modelled regex strings are plain
\* literals, and re.IGNORECASE makes the match case-insensitive
Compile(pattern) == [lit |-> Lower(pattern.regex)]

\* pattern.findall(text): the non-overlapping matches, scanned left to right
Findall(compiled, text) == Count(Lower(text), compiled.lit)

\* load_config's except branch: the built-in ruleset
FallbackConfig ==
  [kind |-> "dict",
   hebrew_patterns |-> [kind |-> "dict", items |-> <<
     [category |-> "humor_indicators",
      data |-> [kind |-> "dict", weight |-> 1000,
                words |-> << <<"het", "het">>, <<"mem", "tsadi", "het", "yod", "qof">> >>]],
     [category |-> "agreement_indicators",
      data |-> [kind |-> "dict", weight |-> 1000,
                words |-> << <<"kaf", "nun_f">>, <<"nun", "kaf", "vav", "nun_f">> >>]],
     [category |-> "disagreement_indicators",
      data |-> [kind |-> "dict", weight |-> 1000,
                words |-> << <<"lamed", "alef">>, <<"alef", "bet", "lamed">> >>]] >>]]

\* bool(self.config): None and the empty dict are falsy
Truthy(config) == config.kind = "dict" /\ DOMAIN config # {"kind"}

\* 'patterns' in config_data raises TypeError for a number or null; for a list
\* it is element membership and for a str substring containment (the modelled
\* lists and strings do not hold 'patterns'), for a dict key membership
HasPatternsRaises(data) == data.kind \in {"num", "null"}
HasPatterns(data) == data.kind = "dict" /\ "patterns" \in DOMAIN data

\* an inner loop that gives the category up at the first regex that does not
\* compile: the patterns after it are lost with it
CompileList_abandoning(patterns) ==
  LET bad == {i \in 1..Len(patterns) : ~patterns[i].valid}
      stop == IF bad = {} THEN Len(patterns) + 1
              ELSE CHOOSE i \in bad : \A j \in bad : i <= j
  IN  [k \in 1..(stop - 1) |-> Compile(patterns[k])]

RECURSIVE CompileList(_)
\* the inner loop of _compile_patterns: a regex that raises re.error is skipped
CompileList(patterns) ==
  IF patterns = <<>> THEN <<>>
  ELSE IF Head(patterns).valid
       THEN <<Compile(Head(patterns))>> \o CompileList(Tail(patterns))
       ELSE CompileList(Tail(patterns))

RECURSIVE CompileItems(_, _)
\* the outer loop of _compile_patterns over the categories, from a cache:
\* [raised, cache], the cache as it is when the loop ends or raises
CompileItems(items, cache) ==
  IF items = <<>> THEN [raised |-> FALSE, cache |-> cache]
  ELSE LET e == Head(items) IN
    IF HasPatternsRaises(e.data) THEN [raised |-> TRUE, cache |-> cache]
    ELSE IF HasPatterns(e.data)
         THEN CompileItems(Tail(items),
                cache \o <<[category |-> e.category,
                            compiled |-> CompileList(e.data.patterns)]>>)
         ELSE CompileItems(Tail(items), cache)

\* _compile_patterns on self.config, starting from self.patterns_cache
\* (.get and .items raise AttributeError on a value that is not a dict)
_compile_patterns(config, cache) ==
  IF ~Truthy(config) THEN [raised |-> FALSE, cache |-> cache]
  ELSE IF config.kind # "dict" THEN [raised |-> TRUE, cache |-> cache]
  ELSE LET hp == Get(config, "hebrew_patterns", [kind |-> "dict", items |-> <<>>]) IN
       IF hp.kind # "dict" THEN [raised |-> TRUE, cache |-> cache]
       ELSE CompileItems(hp.items, cache)

\* the candidate paths of load_config, in the order they are tried
CandidatePaths == 1..3

\* the path load_config opens: the first of the first two candidates that
\* exists, else the third whether it exists or not
config_path(fs) ==
  IF fs[1].exists THEN 1 ELSE IF fs[2].exists THEN 2 ELSE 3

\* a load_config whose except branch installs nothing: the configuration
\* stays the None that __init__ assigned
load_config_no_fallback(fs) ==
  LET f == fs[config_path(fs)] IN
  IF ~f.exists \/ ~f.parses
  THEN [config |-> [kind |-> "null"], patterns_cache |-> <<>>]
  ELSE LET c == _compile_patterns(f.content, <<>>) IN
       IF c.raised
       THEN [config |-> [kind |-> "null"], patterns_cache |-> c.cache]
       ELSE [config |-> f.content, patterns_cache |-> c.cache]

\* HebrewEmotionAnalyzer(): __init__ followed by load_config on the file system fs
load_config(fs) ==
  LET f == fs[config_path(fs)] IN
  IF ~f.exists \/ ~f.parses
  THEN [config |-> FallbackConfig, patterns_cache |-> <<>>]
  ELSE LET c == _compile_patterns(f.content, <<>>) IN
       IF c.raised
       THEN [config |-> FallbackConfig, patterns_cache |-> c.cache]
       ELSE [config |-> f.content, patterns_cache |-> c.cache]

-----------------------------------------------------------------------------
(* Category scoring *)

\* category in self.patterns_cache
InCache(cache, category) == \E i \in 1..Len(cache) : cache[i].category = category

\* self.patterns_cache[category]
CacheAt(cache, category) ==
  cache[CHOOSE i \in 1..Len(cache) : cache[i].category = category].compiled

\* _analyze_category's last loop: sum of len(findall) * weight * 0.8
PatternScore(text, patterns, weight) ==
  SumSeq([i \in 1..Len(patterns) |-> (Findall(patterns[i], text) * weight * 8) \div 10])

\* a scoring that counts every occurrence of a word or phrase
_analyze_category_counting(text, category, config_data, cache) ==
  IF config_data.kind # "dict" THEN 0
  ELSE LET weight == Get(config_data, "weight", Scale)
           words == Get(config_data, "words", <<>>)
           phrases == Get(config_data, "phrases", <<>>)
           low == Lower(text)
       IN  SumSeq([i \in 1..Len(words) |-> Count(low, Lower(words[i]))]) * weight
         + SumSeq([i \in 1..Len(phrases) |-> Count(low, Lower(phrases[i]))])
             * ((weight * 12) \div 10)
         + (IF InCache(cache, category)
            THEN PatternScore(text, CacheAt(cache, category), weight)
            ELSE 0)

\* _analyze_category: the score of one category for the text, in thousandths
_analyze_category(text, category, config_data, cache) ==
  IF config_data.kind # "dict" THEN 0
  ELSE LET weight == Get(config_data, "weight", Scale)
           words == Get(config_data, "words", <<>>)
           phrases == Get(config_data, "phrases", <<>>)
           low == Lower(text)
       IN  Cardinality({i \in 1..Len(words) : Contains(Lower(words[i]), low)}) * weight
         + Cardinality({i \in 1..Len(phrases) : Contains(Lower(phrases[i]), low)})
             * ((weight * 12) \div 10)
         + (IF InCache(cache, category)
            THEN PatternScore(text, CacheAt(cache, category), weight)
            ELSE 0)

\* type(config_data[k]).__name__ where the file holds, under k, a value of
\* another JSON type than the code expects (a number for weight, a list of
\* strings for words and phrases): such a value is recorded under types, the
\* types of the elements of a list k under types[k + "_items"]
TypeOf(config_data, k, expected) ==
  IF "types" \in DOMAIN config_data /\ k \in DOMAIN config_data.types
  THEN config_data.types[k]
  ELSE expected

\* `for word in config_data.get(k, [])` with `word.lower() in text.lower()`
\* and `score += weight [* 1.2]` raises: TypeError when the value is a number
\* (not iterable), AttributeError at an element that is not a str, TypeError
\* when an element matches and the weight is not a number
ListRaises(text, config_data, k) ==
  IF TypeOf(config_data, k, "list") = "int" THEN TRUE
  ELSE LET items == Get(config_data, k, <<>>)
           item_types == TypeOf(config_data, k \o "_items", [i \in 1..Len(items) |-> "str"])
       IN  \/ \E i \in 1..Len(items) : item_types[i] # "str"
           \/ /\ TypeOf(config_data, "weight", "float") = "str"
              /\ \E i \in 1..Len(items) : Contains(Lower(items[i]), Lower(text))

\* _analyze_category raises instead of returning a score.  In the last loop
\* len(matches) * weight * 0.8 is str * float when the weight is a str, for
\* every compiled pattern whether it matches or not
_analyze_category_raises(text, category, config_data, cache) ==
  /\ config_data.kind = "dict"
  /\ \/ ListRaises(text, config_data, "words")
     \/ ListRaises(text, config_data, "phrases")
     \/ /\ TypeOf(config_data, "weight", "float") = "str"
        /\ InCache(cache, category)
        /\ CacheAt(cache, category) # <<>>

\* self.config.get('hebrew_patterns', {}) if self.config else {}   (its items)
HebrewPatterns(config) ==
  IF Truthy(config)
  THEN Get(config, "hebrew_patterns", [kind |-> "dict", items |-> <<>>]).items
  ELSE <<>>

RECURSIVE ScoreItems_nonzero(_, _, _)
\* a loop that keeps every score other than 0 (`if score:`)
ScoreItems_nonzero(text, items, cache) ==
  IF items = <<>> THEN <<>>
  ELSE LET e == Head(items)
           score == _analyze_category(text, e.category, e.data, cache)
       IN  (IF score # 0 THEN <<[category |-> e.category, score |-> score]>> ELSE <<>>)
           \o ScoreItems_nonzero(text, Tail(items), cache)

RECURSIVE ScoreItems(_, _, _)
\* the loop of analyze_single_segment over the categories: emotion_scores, the
\* categories with score > 0 in configuration order
ScoreItems(text, items, cache) ==
  IF items = <<>> THEN <<>>
  ELSE LET e == Head(items)
           score == _analyze_category(text, e.category, e.data, cache)
       IN  (IF score > 0 THEN <<[category |-> e.category, score |-> score]>> ELSE <<>>)
           \o ScoreItems(text, Tail(items), cache)

\* category in emotion_scores
Scored(emotion_scores, category) ==
  \E i \in 1..Len(emotion_scores) : emotion_scores[i].category = category

\* emotion_scores.get(category, 0)
ScoreOf(emotion_scores, category) ==
  IF Scored(emotion_scores, category)
  THEN emotion_scores[CHOOSE i \in 1..Len(emotion_scores) :
                        emotion_scores[i].category = category].score
  ELSE 0

\* sum(emotion_scores.values())
TotalScore(emotion_scores) ==
  SumSeq([i \in 1..Len(emotion_scores) |-> emotion_scores[i].score])

\* list(emotion_scores.keys())
Keys(emotion_scores) == [i \in 1..Len(emotion_scores) |-> emotion_scores[i].category]

-----------------------------------------------------------------------------
(* Emotion selection *)

\* a sort by score that puts the later of two equal scores first
sorted_scores_unstable(emotion_scores) ==
  LET n == Len(emotion_scores)
      rank(i) == 1 + Cardinality({j \in 1..n :
                   \/ emotion_scores[j].score > emotion_scores[i].score
                   \/ emotion_scores[j].score = emotion_scores[i].score /\ j > i})
  IN  [k \in 1..n |-> emotion_scores[CHOOSE i \in 1..n : rank(i) = k]]

\* sorted(emotion_scores.items(), key=score, reverse=True): stable, so equal
\* scores keep their order in emotion_scores
sorted_scores(emotion_scores) ==
  LET n == Len(emotion_scores)
      rank(i) == 1 + Cardinality({j \in 1..n :
                   \/ emotion_scores[j].score > emotion_scores[i].score
                   \/ emotion_scores[j].score = emotion_scores[i].score /\ j < i})
  IN  [k \in 1..n |-> emotion_scores[CHOOSE i \in 1..n : rank(i) = k]]

\* category in emotion_mapping
Mapped(category) == \E i \in 1..Len(emotion_mapping) : emotion_mapping[i].category = category

\* emotion_mapping[category]
LabelOf(category) ==
  emotion_mapping[CHOOSE i \in 1..Len(emotion_mapping) :
                    emotion_mapping[i].category = category].emotion

\* x in lst
InList(x, lst) == \E i \in 1..Len(lst) : lst[i] = x

RECURSIVE RankedLabels_repeating(_, _)
\* a loop that appends a label each time a category carries it
RankedLabels_repeating(sorted, emotions) ==
  IF sorted = <<>> THEN emotions
  ELSE LET c == Head(sorted) IN
       IF c.score > 500 /\ Mapped(c.category)
       THEN RankedLabels_repeating(Tail(sorted), Append(emotions, LabelOf(c.category)))
       ELSE RankedLabels_repeating(Tail(sorted), emotions)

RECURSIVE RankedLabels(_, _)
\* the loop over sorted_scores: the labels of the mapped categories above the
\* threshold 0.5, each label once
RankedLabels(sorted, emotions) ==
  IF sorted = <<>> THEN emotions
  ELSE LET c == Head(sorted) IN
       IF c.score > 500 /\ Mapped(c.category) /\ ~InList(LabelOf(c.category), emotions)
       THEN RankedLabels(Tail(sorted), Append(emotions, LabelOf(c.category)))
       ELSE RankedLabels(Tail(sorted), emotions)

label_approval == <<"alef", "yod", "shin", "vav", "resh">>
label_annoyance == <<"ayin", "tsadi", "bet", "nun", "vav", "tav">>

\* a selection that keeps every label
Top3_unbounded(emotions) == emotions

\* emotions[:3]
Top3(emotions) == SubSeq(emotions, 1, Min(3, Len(emotions)))

\* a selection whose overrides go to the front of the list
_map_categories_to_emotions_prepending(emotion_scores) ==
  LET ranked == RankedLabels(sorted_scores(emotion_scores), <<>>)
      withAgreement ==
        IF /\ Scored(emotion_scores, "agreement_indicators")
           /\ ScoreOf(emotion_scores, "agreement_indicators") > 1000
           /\ ~InList(label_approval, ranked)
        THEN <<label_approval>> \o ranked ELSE ranked
      withDisagreement ==
        IF /\ Scored(emotion_scores, "disagreement_indicators")
           /\ ScoreOf(emotion_scores, "disagreement_indicators") > 1000
           /\ ~InList(label_annoyance, withAgreement)
        THEN <<label_annoyance>> \o withAgreement ELSE withAgreement
  IN  Top3(withDisagreement)

\* _map_categories_to_emotions
_map_categories_to_emotions(emotion_scores) ==
  LET ranked == RankedLabels(sorted_scores(emotion_scores), <<>>)
      withAgreement ==
        IF /\ Scored(emotion_scores, "agreement_indicators")
           /\ ScoreOf(emotion_scores, "agreement_indicators") > 1000
           /\ ~InList(label_approval, ranked)
        THEN Append(ranked, label_approval) ELSE ranked
      withDisagreement ==
        IF /\ Scored(emotion_scores, "disagreement_indicators")
           /\ ScoreOf(emotion_scores, "disagreement_indicators") > 1000
           /\ ~InList(label_annoyance, withAgreement)
        THEN Append(withAgreement, label_annoyance) ELSE withAgreement
  IN  Top3(withDisagreement)

label_silence == <<"shin", "tav", "yod", "qof", "he">>
label_curiosity == <<"samekh", "qof", "resh", "nun", "vav", "tav">>
label_excitement == <<"he", "tav", "resh", "gimel", "shin", "vav", "tav">>
label_affection == <<"het", "yod", "bet", "he">>
label_happiness == <<"shin", "mem", "het", "he">>

\* a cascade that tests the exclamation mark before the question mark
forced_emotions_exclamation_first(text) ==
  IF Contains(<<"!">>, text) THEN <<label_excitement>>
  ELSE IF Contains(<<"?">>, text) THEN <<label_curiosity>>
  ELSE IF Len(text) < 10 THEN <<label_affection>>
  ELSE <<label_happiness>>

\* the forced emotions of analyze_single_segment when none was selected
forced_emotions(text) ==
  IF Contains(<<"?">>, text) THEN <<label_curiosity>>
  ELSE IF Contains(<<"!">>, text) THEN <<label_excitement>>
  ELSE IF Len(text) < 10 THEN <<label_affection>>
  ELSE <<label_happiness>>

-----------------------------------------------------------------------------
(* Derived metrics.  Scores are thousandths; int() of a non-negative float is \div Scale *)

\* sum(text.count(p) for p in lst)
CountAll(text, lst) == SumSeq([i \in 1..Len(lst) |-> Count(text, lst[i])])

\* a blur that counts overlapping occurrences of the question marks
_calculate_blur_overlapping(emotion_scores, text) ==
  LET starts(p) == Cardinality({i \in 1..Len(text) : MatchAt(p, text, i)})
      blur_score ==
          ScoreOf(emotion_scores, "blur_indicators")
        + CountAll(text, unclear_patterns) * 1500
        + Count(text, <<"alef", "mem", "mem">>) * 1000
        + Count(text, <<"alef", "he", "he", "he">>) * 1000
        + starts(<<"?", "?">>) * 800
        + starts(<<"?", "?", "?">>) * 1000
  IN  Min(12, blur_score \div Scale)

\* _calculate_blur
_calculate_blur(emotion_scores, text) ==
  LET blur_score ==
          ScoreOf(emotion_scores, "blur_indicators")
        + CountAll(text, unclear_patterns) * 1500
        + Count(text, <<"alef", "mem", "mem">>) * 1000
        + Count(text, <<"alef", "he", "he", "he">>) * 1000
        + Count(text, <<"?", "?">>) * 800
        + Count(text, <<"?", "?", "?">>) * 1000
  IN  Min(12, blur_score \div Scale)

\* _calculate_shine
_calculate_shine(emotion_scores, text) ==
  LET shine_score ==
          Hits(important_words, Lower(text)) * 2000
        + SumSeq([i \in 1..Len(strong_emotions) |->
                    (ScoreOf(emotion_scores, strong_emotions[i]) * 6) \div 10])
        + Count(text, <<"!", "!">>) * 800
        + Count(text, <<"!", "!", "!">>) * 1200
        + Hits(achievement_words, Lower(text)) * 1500
  IN  Min(10, shine_score \div Scale)

\* a humor level that adds the category scores without the `if humor_score > 0`
_calculate_humor_ungated(emotion_scores, text) ==
  LET strong ==
          Hits(strong_humor_words, Lower(text)) * 1500
        + Count(Lower(text), <<"het", "het", "het">>) * 1000
        + Count(Lower(text), <<"het", "het", "het", "het">>) * 1500
      humor_score ==
        strong + (ScoreOf(emotion_scores, "humor_indicators") * 5) \div 10
               + (ScoreOf(emotion_scores, "amusement_indicators") * 3) \div 10
  IN  Min(10, humor_score \div Scale)

\* _calculate_humor
_calculate_humor(emotion_scores, text) ==
  LET strong ==
          Hits(strong_humor_words, Lower(text)) * 1500
        + Count(Lower(text), <<"het", "het", "het">>) * 1000
        + Count(Lower(text), <<"het", "het", "het", "het">>) * 1500
      humor_score ==
        IF strong > 0
        THEN strong + (ScoreOf(emotion_scores, "humor_indicators") * 5) \div 10
                    + (ScoreOf(emotion_scores, "amusement_indicators") * 3) \div 10
        ELSE strong
  IN  Min(10, humor_score \div Scale)

\* a confidence without the lower clamp max(0.1, ...)
_calculate_confidence_unclamped(emotion_scores, text) ==
  IF emotion_scores = <<>> THEN [num |-> 3, den |-> 10]
  ELSE LET num == TotalScore(emotion_scores)
           den == (Scale \div 10) * Max(10, WordCount(text)) * 5
       IN  IF num > den THEN [num |-> 1, den |-> 1]
           ELSE [num |-> num, den |-> den]

\* _calculate_confidence: the exact fraction num/den
\*   total/Scale / max(1, words * 0.1) / 5.0  =  total / (Scale/10 * max(10, words) * 5)
_calculate_confidence(emotion_scores, text) ==
  IF emotion_scores = <<>> THEN [num |-> 3, den |-> 10]
  ELSE LET num == TotalScore(emotion_scores)
           den == (Scale \div 10) * Max(10, WordCount(text)) * 5
       IN  IF num * 10 < den THEN [num |-> 1, den |-> 10]
           ELSE IF num > den THEN [num |-> 1, den |-> 1]
           ELSE [num |-> num, den |-> den]

\* int() of the score where the code rounds it
Round_truncating(x) == x \div Scale

\* round() of a non-negative float in thousandths: to nearest, ties to even
Round(x) ==
  LET q == x \div Scale
      r == x % Scale
  IN  IF r < 500 THEN q
      ELSE IF r > 500 THEN q + 1
      ELSE IF q % 2 = 0 THEN q ELSE q + 1

\* len([w for w in text.split() if len(w) > 8])
LongWords(text) == Cardinality({i \in WordStarts(text) : WordLenAt(text, i) > 8})

\* _calculate_blobiness: the sum of the five tiers, the emotional intensity and
\* the linguistic complexity (total_depth_score)
total_depth_score(text, emotions) ==
  LET low == Lower(text)
      existential_score == Hits(existential_themes, low) * 3000
      struggle_score == Hits(personal_struggles, low) * 2500
      vulnerability_score == Hits(emotional_vulnerability, low) * 2000
      transition_score == Hits(life_transitions, low) * 1500
      relationship_score == Hits(relationship_depth, low) * 1200
      emotional_intensity ==
        Cardinality({i \in 1..Len(emotions) : InList(emotions[i], intense_emotions)}) * 2000
      complex_patterns ==
          (IF Contains(<<".", ".", ".">>, text) \/ Contains(<<"hellip">>, text)
           THEN 1000 ELSE 0)
        + (IF LongWords(text) > 2 THEN 1000 ELSE 0)
        + (IF Count(text, <<"?">>) > 1 THEN 1500 ELSE 0)
  IN  existential_score + struggle_score + vulnerability_score
    + transition_score + relationship_score + emotional_intensity + complex_patterns

\* _calculate_blobiness: 3.0 for every small-talk phrase in the lowercased text
small_talk_penalty(text) == Hits(small_talk_phrases, Lower(text)) * 3000

\* a blobiness that looks at the depth first and lets small talk lower only
\* shallow text
_calculate_blobiness_depth_first(emotion_scores, text, emotions) ==
  LET d == total_depth_score(text, emotions)
      blobiness_score ==
        IF d >= 8000 THEN Min(10000, 7000 + (d * 3) \div 10)
        ELSE IF d >= 5000 THEN 5000 + (d * 4) \div 10
        ELSE IF d >= 2000 THEN 2000 + (d * 5) \div 10
        ELSE IF small_talk_penalty(text) > 0
             THEN Max(1000, 2000 - small_talk_penalty(text))
        ELSE 1000 + Len(emotions) * 300
  IN  Min(10, Max(1, Round(blobiness_score)))

\* a blobiness whose middle band starts below the band under it
_calculate_blobiness_dipping(emotion_scores, text, emotions) ==
  LET d == total_depth_score(text, emotions)
      blobiness_score ==
        IF small_talk_penalty(text) > 0 THEN Max(1000, 2000 - small_talk_penalty(text))
        ELSE IF d >= 8000 THEN Min(10000, 7000 + (d * 3) \div 10)
        ELSE IF d >= 5000 THEN 1000 + (d * 4) \div 10
        ELSE IF d >= 2000 THEN 2000 + (d * 5) \div 10
        ELSE 1000 + Len(emotions) * 300
  IN  Min(10, Max(1, Round(blobiness_score)))

\* _calculate_blobiness
_calculate_blobiness(emotion_scores, text, emotions) ==
  LET d == total_depth_score(text, emotions)
      blobiness_score ==
        IF small_talk_penalty(text) > 0 THEN Max(1000, 2000 - small_talk_penalty(text))
        ELSE IF d >= 8000 THEN Min(10000, 7000 + (d * 3) \div 10)
        ELSE IF d >= 5000 THEN 5000 + (d * 4) \div 10
        ELSE IF d >= 2000 THEN 2000 + (d * 5) \div 10
        ELSE 1000 + Len(emotions) * 300
  IN  Min(10, Max(1, Round(blobiness_score)))

\* _calculate_proximity
_calculate_proximity(emotion_scores, text) ==
  LET agreement_score ==
        ScoreOf(emotion_scores, "agreement_indicators")
          + Hits(strong_agreement, Lower(text)) * 2000
      disagreement_score ==
        ScoreOf(emotion_scores, "disagreement_indicators")
          + Hits(strong_disagreement, Lower(text)) * 2000
      net_agreement == agreement_score - disagreement_score
  IN  IF net_agreement >= 2000 THEN "together"
      ELSE IF net_agreement >= -500 THEN "close"
      ELSE "far away"

\* a spacing that tests the far-away rule before the close rule
calculate_auto_blob_spacing_far_first(emotion_scores, text, is_conversation_start) ==
  IF is_conversation_start THEN "far away"
  ELSE
    LET agreement_score == ScoreOf(emotion_scores, "agreement_indicators")
        disagreement_score == ScoreOf(emotion_scores, "disagreement_indicators")
        approval_score == ScoreOf(emotion_scores, "approval_indicators")
        mutual_understanding_count == Hits(mutual_understanding_phrases, Lower(text))
        acceptance_count == Hits(acceptance_phrases, Lower(text))
        general_conversation_count == Hits(general_conversation_phrases, Lower(text))
        net_agreement == agreement_score - disagreement_score + approval_score
    IN  IF mutual_understanding_count >= 1 /\ net_agreement >= 1500 THEN "together"
        ELSE IF \/ general_conversation_count >= 1
                \/ net_agreement < -500
                \/ disagreement_score > 0
             THEN "far away"
        ELSE "close"

\* calculate_auto_blob_spacing
calculate_auto_blob_spacing(emotion_scores, text, is_conversation_start) ==
  IF is_conversation_start THEN "far away"
  ELSE
    LET agreement_score == ScoreOf(emotion_scores, "agreement_indicators")
        disagreement_score == ScoreOf(emotion_scores, "disagreement_indicators")
        approval_score == ScoreOf(emotion_scores, "approval_indicators")
        mutual_understanding_count == Hits(mutual_understanding_phrases, Lower(text))
        acceptance_count == Hits(acceptance_phrases, Lower(text))
        general_conversation_count == Hits(general_conversation_phrases, Lower(text))
        net_agreement == agreement_score - disagreement_score + approval_score
    IN  IF mutual_understanding_count >= 1 /\ net_agreement >= 1500 THEN "together"
        ELSE IF acceptance_count >= 1 \/ net_agreement >= 500 THEN "close"
        ELSE IF \/ general_conversation_count >= 1
                \/ net_agreement < -500
                \/ disagreement_score > 0
             THEN "far away"
        ELSE "close"

\* the voice intensity of analyze_single_segment: min(3.0, 1.0 + score) if scored
VoiceIntensity(emotion_scores) ==
  IF Scored(emotion_scores, "voice_intensity_indicators")
  THEN Min(3000, 1000 + ScoreOf(emotion_scores, "voice_intensity_indicators"))
  ELSE 1000

-----------------------------------------------------------------------------
(* The analysis call *)

\* the descriptor returned for an empty or whitespace-only transcript
EmptyDescriptor ==
  [emotions |-> <<label_silence>>,
   confidence |-> [num |-> 1, den |-> 2],
   blur |-> 0, shine |-> 0, humor |-> 0,
   voice_intensity |-> 1000,
   analysis_method |-> "empty_text",
   detected_patterns |-> <<>>]

\* an early return that tests the transcript without stripping it
IsBlank_unstripped(transcript) == transcript = <<>>

\* not transcript or not transcript.strip()
IsBlank(transcript) == transcript = <<>> \/ Strip(transcript) = <<>>

\* HebrewEmotionAnalyzer.analyze_single_segment on the analyzer self
\* (use_fast_mode is never read)
HebrewEmotionAnalyzer_analyze_single_segment(self, transcript, is_conversation_start) ==
  IF IsBlank(transcript) THEN EmptyDescriptor
  ELSE
    LET text == Strip(transcript)
        emotion_scores == ScoreItems(text, HebrewPatterns(self.config), self.patterns_cache)
        emotions == _map_categories_to_emotions(emotion_scores)
    IN  [emotions |-> IF emotions = <<>> THEN forced_emotions(text) ELSE emotions,
         confidence |-> _calculate_confidence(emotion_scores, text),
         blur |-> _calculate_blur(emotion_scores, text),
         shine |-> _calculate_shine(emotion_scores, text),
         humor |-> _calculate_humor(emotion_scores, text),
         voice_intensity |-> VoiceIntensity(emotion_scores),
         blobiness |-> _calculate_blobiness(emotion_scores, text, emotions),
         proximity |-> _calculate_proximity(emotion_scores, text),
         auto_blob_spacing |->
           calculate_auto_blob_spacing(emotion_scores, text, is_conversation_start),
         analysis_method |-> "hebrew_patterns",
         detected_patterns |-> Keys(emotion_scores),
         raw_scores |-> emotion_scores]

\* the call of the method raises: the exception of _analyze_category leaves
\* the loop of lines 101-105 and the method (nothing catches it)
AnalysisRaises(self, transcript) ==
  /\ ~IsBlank(transcript)
  /\ \E i \in 1..Len(HebrewPatterns(self.config)) :
       _analyze_category_raises(Strip(transcript), HebrewPatterns(self.config)[i].category,
                                HebrewPatterns(self.config)[i].data, self.patterns_cache)

\* the module-level analyze_single_segment, given the analyzer get_analyzer
\* returned: it calls the method with (transcript, use_fast_mode) only
analyze_single_segment(analyzer_, transcript, is_conversation_start) ==
  HebrewEmotionAnalyzer_analyze_single_segment(analyzer_, transcript, FALSE)

\* the module-level get_cache_stats, given the analyzer get_analyzer returned
\* (last_updated, the wall-clock time of the call, is left out)
get_cache_stats(analyzer_) ==
  [patterns_cached |-> Len(analyzer_.patterns_cache),
   config_loaded |-> TRUE,
   categories_available |-> Len(HebrewPatterns(analyzer_.config))]

\* an analysis that drops the compiled patterns it has used
AfterAnalysis_evicting(self, transcript) == [self EXCEPT !.patterns_cache = <<>>]

\* an analysis that memoises the transcript as one more compiled pattern
AfterAnalysis_memoising(self, transcript) ==
  [self EXCEPT !.patterns_cache =
     Append(@, [category |-> "transcript", compiled |-> <<[lit |-> Lower(transcript)]>>])]

\* what an analysis call leaves in the analyzer it ran on: neither
\* analyze_single_segment nor any function it calls assigns to self
AfterAnalysis(self, transcript) == self

-----------------------------------------------------------------------------
(* The environment: the candidate configuration files and the transcripts *)

\* enhanced_analysis_config.json in the working directory
CwdConfig ==
  [kind |-> "dict",
   hebrew_patterns |-> [kind |-> "dict", items |-> <<
     [category |-> "voice_intensity_indicators",
      data |-> [kind |-> "dict", weight |-> 1500, words |-> << <<"!">> >>]],
     [category |-> "curiosity_indicators",
      data |-> [kind |-> "dict", weight |-> 1000, words |-> << <<"?">> >>]],
     [category |-> "excitement_indicators",
      data |-> [kind |-> "dict", weight |-> 1000, words |-> << <<"!">> >>]],
     [category |-> "surprise_indicators",
      data |-> [kind |-> "dict", weight |-> 1000, words |-> << <<"!">> >>]],
     [category |-> "humor_indicators",
      data |-> [kind |-> "dict", weight |-> 1000, words |-> << <<"het", "het">> >>,
                patterns |-> << [valid |-> TRUE, regex |-> <<"het", "het">>] >>]],
     [category |-> "agreement_indicators",
      data |-> [kind |-> "dict", weight |-> 1500,
                words |-> << <<"kaf", "nun_f">>, <<"o", "k">> >>]],
     [category |-> "disagreement_indicators",
      data |-> [kind |-> "dict", weight |-> 1500, words |-> << <<"lamed", "alef">> >>]],
     [category |-> "frustration_indicators",
      data |-> [kind |-> "dict",
                words |-> << <<"lamed", "alef">>, <<"alef", "bet", "lamed">> >>]],
     [category |-> "blur_indicators",
      data |-> [kind |-> "dict", weight |-> 1000, phrases |-> << <<"?", "?">> >>]] >>]]

\* config/enhanced_analysis_config.json: a list-valued category, a regex that
\* does not compile, an upper-case word, a weight below the selection threshold
DirConfig ==
  [kind |-> "dict",
   hebrew_patterns |-> [kind |-> "dict", items |-> <<
     [category |-> "notes", data |-> [kind |-> "list"]],
     [category |-> "curiosity_indicators",
      data |-> [kind |-> "dict", weight |-> 250, words |-> << <<"?">> >>]],
     [category |-> "humor_indicators",
      data |-> [kind |-> "dict", phrases |-> << <<"het", "het", "het">> >>,
                patterns |-> << [valid |-> FALSE, regex |-> <<"(">>],
                                [valid |-> TRUE, regex |-> <<"het", "het">>] >>]],
     [category |-> "approval_indicators",
      data |-> [kind |-> "dict", weight |-> 1000,
                words |-> << <<"kaf", "nun_f">>, <<"O", "K">> >>]],
     [category |-> "joy_indicators",
      data |-> [kind |-> "dict", weight |-> 1000, words |-> << <<"!">> >>]],
     [category |-> "happiness_indicators",
      data |-> [kind |-> "dict", weight |-> 1000, words |-> << <<"!">> >>]] >>]]

\* ../config/enhanced_analysis_config.json: a category with patterns followed
\* by a number-valued entry, on which _compile_patterns raises TypeError
ParentConfig ==
  [kind |-> "dict",
   hebrew_patterns |-> [kind |-> "dict", items |-> <<
     [category |-> "humor_indicators",
      data |-> [kind |-> "dict", weight |-> 2000,
                words |-> << <<"mem", "tsadi", "het", "yod", "qof">> >>,
                patterns |-> << [valid |-> TRUE, regex |-> <<"het", "het">>] >>]],
     [category |-> "version", data |-> [kind |-> "num"]],
     [category |-> "agreement_indicators",
      data |-> [kind |-> "dict", weight |-> 1000, words |-> << <<"kaf", "nun_f">> >>]] >>]]

\* what each candidate path holds when it holds a file that parses
FileContent == <<CwdConfig, DirConfig, ParentConfig>>

\* the states of the file at candidate path p: absent, present but not JSON,
\* present and parsed
FileStates(p) ==
  {[exists |-> FALSE],
   [exists |-> TRUE, parses |-> FALSE],
   [exists |-> TRUE, parses |-> TRUE, content |-> FileContent[p]]}

\* every state of the three candidate files
FileSystems ==
  {f \in [CandidatePaths -> UNION {FileStates(p) : p \in CandidatePaths}] :
     \A p \in CandidatePaths : f[p] \in FileStates(p)}

\* the file systems with at most one candidate file present: one for each
\* outcome of load_config
SampleFileSystems ==
  {f \in FileSystems : Cardinality({p \in CandidatePaths : f[p].exists}) <= 1}

\* a configuration file with entries the code tolerates: a string-valued and
\* a list-valued category, a regex that does not compile between two that do,
\* a negative weight
TolerantConfig ==
  [kind |-> "dict",
   hebrew_patterns |-> [kind |-> "dict", items |-> <<
     [category |-> "comment", data |-> [kind |-> "str"]],
     [category |-> "notes", data |-> [kind |-> "list"]],
     [category |-> "humor_indicators",
      data |-> [kind |-> "dict", weight |-> 500, phrases |-> << <<"het", "het", "het">> >>,
                patterns |-> << [valid |-> TRUE, regex |-> <<"het", "het">>],
                                [valid |-> FALSE, regex |-> <<"(">>],
                                [valid |-> TRUE, regex |-> <<"!">>] >>]],
     [category |-> "sarcasm_indicators",
      data |-> [kind |-> "dict", weight |-> -1000, words |-> << <<"lamed", "alef">> >>,
                patterns |-> << [valid |-> TRUE, regex |-> <<"lamed", "alef">>] >>]],
     [category |-> "agreement_indicators",
      data |-> [kind |-> "dict", weight |-> 1500, words |-> << <<"kaf", "nun_f">> >>]],
     [category |-> "disagreement_indicators",
      data |-> [kind |-> "dict", words |-> << <<"lamed", "alef">> >>]] >>]]

\* a configuration file with "weight": "high" in one category
BadWeightConfig ==
  [kind |-> "dict",
   hebrew_patterns |-> [kind |-> "dict", items |-> <<
     [category |-> "agreement_indicators",
      data |-> [kind |-> "dict", words |-> << <<"kaf", "nun_f">> >>]],
     [category |-> "excitement_indicators",
      data |-> [kind |-> "dict", types |-> [weight |-> "str"],
                words |-> << <<"!">> >>, phrases |-> << <<"?", "?">> >>]],
     [category |-> "disagreement_indicators",
      data |-> [kind |-> "dict", weight |-> 1000, words |-> << <<"lamed", "alef">> >>]] >>]]

\* a configuration file with "words": ["כן", 7] in one category, "words": 7
\* in another and "weight": "high" beside a regex in a third
BadItemsConfig ==
  [kind |-> "dict",
   hebrew_patterns |-> [kind |-> "dict", items |-> <<
     [category |-> "agreement_indicators",
      data |-> [kind |-> "dict", types |-> [words_items |-> <<"str", "int">>],
                words |-> << <<"kaf", "nun_f">>, <<"7">> >>]],
     [category |-> "curiosity_indicators",
      data |-> [kind |-> "dict", types |-> [words |-> "int"]]],
     [category |-> "humor_indicators",
      data |-> [kind |-> "dict", types |-> [weight |-> "str"],
                patterns |-> << [valid |-> TRUE, regex |-> <<"het", "het">>] >>]] >>]]

\* what each candidate path holds in the file systems with unusual entries
MalformedContent == <<TolerantConfig, BadWeightConfig, BadItemsConfig>>

\* the file systems with one candidate file, which parses and has unusual entries
MalformedFileSystems ==
  {[p \in CandidatePaths |->
      IF p = q THEN [exists |-> TRUE, parses |-> TRUE, content |-> MalformedContent[q]]
      ELSE [exists |-> FALSE]] : q \in CandidatePaths}

\* the pieces transcripts are made of
Fragments ==
  { <<" ">>, <<"?">>, <<"!">>,
    <<"kaf", "nun_f">>,
    <<"lamed", "alef">>,
    <<"het", "het", "het">>,
    <<"O", "K">>,
    <<"bet", " ", "bet", " ", "bet", " ", "bet", " ", "bet", " ", "bet", " ",
      "bet", " ", "bet", " ", "bet", " ", "bet", " ", "bet", " ">> }

\* the longest transcript, in fragments
MaxFrags == 2

RECURSIVE TextsUpTo(_)
TextsUpTo(n) ==
  IF n = 0 THEN {<<>>}
  ELSE LET shorter == TextsUpTo(n - 1)
       IN  shorter \cup {t \o f : t \in shorter, f \in Fragments}

\* the transcripts of the sequential specification
Texts == TextsUpTo(MaxFrags)

\* the transcripts of the specifications that vary the files or the threads
FewTexts ==
  {<<>>, <<"het", "het", "het">>, <<"lamed", "alef", "?">>, <<" ", "kaf", "nun_f", " ">>}

\* the transcripts of the concurrent specification: a blank one and one that
\* the words and the compiled patterns of a configuration score
ConcTexts == {<<>>, <<"het", "het", "het">>}

\* the file systems of the concurrent specification: no candidate file, and
\* the working-directory file alone
ConcFileSystems ==
  {f \in SampleFileSystems :
     \A p \in CandidatePaths : f[p].exists => (p = 1 /\ f[p].parses)}

\* a configuration file whose laughter categories weigh much
ThemeConfig ==
  [kind |-> "dict",
   hebrew_patterns |-> [kind |-> "dict", items |-> <<
     [category |-> "humor_indicators",
      data |-> [kind |-> "dict", weight |-> 3000, words |-> << <<"het", "het">> >>]],
     [category |-> "amusement_indicators",
      data |-> [kind |-> "dict", weight |-> 2000, words |-> << <<"het", "het">> >>]],
     [category |-> "agreement_indicators",
      data |-> [kind |-> "dict", weight |-> 1000,
                words |-> << <<"kaf", "nun_f">>, <<"mem", "samekh", "kaf", "yod", "mem_f">> >>]],
     [category |-> "disagreement_indicators",
      data |-> [kind |-> "dict", weight |-> 1500, words |-> << <<"lamed", "alef">> >>]],
     [category |-> "curiosity_indicators",
      data |-> [kind |-> "dict", words |-> << <<"?">> >>]],
     [category |-> "sadness_indicators",
      data |-> [kind |-> "dict",
                words |-> << <<"dalet", "yod", "kaf", "alef", "vav", "nun_f">> >>]] >>]]

\* the file systems of the specification about themes: no candidate file, and
\* ThemeConfig alone in the working directory
ThemeFileSystems ==
  { [p \in CandidatePaths |-> [exists |-> FALSE]],
    [p \in CandidatePaths |->
       IF p = 1 THEN [exists |-> TRUE, parses |-> TRUE, content |-> ThemeConfig]
       ELSE [exists |-> FALSE]] }

\* the pieces of the transcripts about themes: two laughter glyphs, a strong
\* humor word, a strong agreement word, the word "no", a small-talk phrase,
\* one and four existential themes, a struggle, a relationship word, an ellipsis
ThemeFragments ==
  { <<" ">>, <<"?">>,
    <<"het", "het">>,
    <<"mem", "tsadi", "het", "yod", "qof">>,
    <<"mem", "samekh", "kaf", "yod", "mem_f">>,
    <<" ", "lamed", "alef">>,
    <<"mem", "he", " ", "het", "dalet", "shin">>,
    <<"pe", "yod", "lamed", "vav", "samekh", "vav", "pe", "yod", "he">>,
    <<"mem", "shin", "mem", "ayin", "vav", "tav", " ", "he", "het", "yod", "yod", "mem_f", " ",
      "mem", "he", " ", "he", "tav", "kaf", "lamed", "yod", "tav", " ",
      "yod", "shin", " ", "alef", "lamed", "vav", "he", "yod", "mem_f", " ",
      "mem", "he", " ", "zayin", "he", " ", "alef", "vav", "shin", "resh", " ">>,
    <<"dalet", "yod", "kaf", "alef", "vav", "nun_f">>,
    <<"alef", "mem", "vav", "nun_f">>,
    <<".", ".", ".">> }

RECURSIVE ThemeTextsUpTo(_)
ThemeTextsUpTo(n) ==
  IF n = 0 THEN {<<>>}
  ELSE LET shorter == ThemeTextsUpTo(n - 1)
       IN  shorter \cup {t \o f : t \in shorter, f \in ThemeFragments}

\* the transcripts of the specification about themes
ThemeTexts == ThemeTextsUpTo(MaxFrags)

\* a configuration file for the blur and spacing metrics: the four categories
\* those metrics read
MetricsConfig ==
  [kind |-> "dict",
   hebrew_patterns |-> [kind |-> "dict", items |-> <<
     [category |-> "blur_indicators",
      data |-> [kind |-> "dict", weight |-> 4500, words |-> << <<"alef", "he">> >>,
                phrases |-> << <<"mem", "he", "?">> >>]],
     [category |-> "agreement_indicators",
      data |-> [kind |-> "dict", weight |-> 1500, words |-> << <<"kaf", "nun_f">> >>]],
     [category |-> "disagreement_indicators",
      data |-> [kind |-> "dict", weight |-> 1000, words |-> << <<"lamed", "alef">> >>]],
     [category |-> "approval_indicators",
      data |-> [kind |-> "dict", weight |-> 1000,
                words |-> << <<"samekh", "bet", "bet", "he">> >>]] >>]]

\* the file system of the specification about metrics: MetricsConfig alone in
\* the working directory
MetricsFileSystems ==
  { [p \in CandidatePaths |->
       IF p = 1 THEN [exists |-> TRUE, parses |-> TRUE, content |-> MetricsConfig]
       ELSE [exists |-> FALSE]] }

\* the pieces of the transcripts about blur: question marks, three unclear
\* or shaky sounds, an unclear question
BlurFragments ==
  { <<" ">>, <<"?">>, <<"?", "?">>,
    <<"mem", "he", "?">>,
    <<"alef", "mem", "mem">>,
    <<"alef", "he", ".", ".", ".">>,
    <<"alef", "he", "he", "he">> }

\* the pieces of the transcripts about spacing: words the configuration
\* scores, phrases of the three phrase lists of calculate_auto_blob_spacing
\* and strong phrases of _calculate_proximity
SpacingFragments ==
  { <<" ">>,
    <<"he", "bet", "nun", "tav", "yod">>,
    <<"kaf", "nun_f">>,
    <<"samekh", "bet", "bet", "he">>,
    <<"lamed", "alef">>,
    <<"shin", "lamed", "vav", "mem_f">>,
    <<"lamed", "alef", " ", "mem", "samekh", "kaf", "yod", "mem_f">>,
    <<"mem", "samekh", "kaf", "yod", "mem_f">>,
    <<"mem", "mem", "shin", " ", "lamed", "alef">>,
    <<"bet", "dalet", "yod", "vav", "qof">> }

RECURSIVE TextsOver(_, _)
\* the transcripts of at most n of the given pieces
TextsOver(frags, n) ==
  IF n = 0 THEN {<<>>}
  ELSE LET shorter == TextsOver(frags, n - 1)
       IN  shorter \cup {t \o f : t \in shorter, f \in frags}

\* the transcripts of the specification about metrics
MetricsTexts == TextsOver(BlurFragments, MaxFrags) \cup TextsOver(SpacingFragments, MaxFrags)

\* the file system of the specification about depth: ThemeConfig alone in
\* the working directory
DepthFileSystems == {f \in ThemeFileSystems : f[1].exists}

\* the pieces of the transcripts about depth: a question mark, an ellipsis
\* (1.0), a relationship word (1.2), a transition word (1.5), a vulnerability
\* word (2.0), a struggle (2.5), an existential theme (3.0), an existential
\* theme with a struggle (5.5), a small-talk phrase
DepthFragments ==
  { <<"?">>, <<".", ".", ".">>,
    <<"alef", "mem", "vav", "nun_f">>,
    <<"tsadi", "bet", "alef">>,
    <<"bet", "vav", "shin", "he">>,
    <<"dalet", "yod", "kaf", "alef", "vav", "nun_f">>,
    <<"pe", "yod", "lamed", "vav", "samekh", "vav", "pe", "yod", "he">>,
    <<"yod", "shin", " ", "alef", "lamed", "vav", "he", "yod", "mem_f", " ",
      "gimel", "yod", "resh", "vav", "shin", "yod", "mem_f", " ">>,
    <<"mem", "he", " ", "het", "dalet", "shin">> }

\* the transcripts of the specification about depth
DepthTexts == TextsOver(DepthFragments, MaxFrags)

\* the number of threads of the concurrent specification
NumThreads == 2

\* the completed analysis calls are counted up to this number
MaxServed == 2
Threads == 1..NumThreads

-----------------------------------------------------------------------------
(* The state machine *)

VARIABLES
  fs,          \* the file at each candidate path
  analyzers,   \* the HebrewEmotionAnalyzer instances constructed so far
  _analyzer,   \* the module global: 0 is None, else an index into analyzers
  pc,          \* per thread: where it is in its call
  built,       \* per thread: the instance it constructed and has not stored yet
  analyzer,    \* per thread: the local variable analyzer (0: unset)
  ret,         \* the value returned by the call that completed last
  served       \* history variable: the calls completed so far, counted up to MaxServed

vars == <<fs, analyzers, _analyzer, pc, built, analyzer, ret, served>>

NoCall == [op |-> "none"]

\* what a caller is left with when the analysis call `of` raised: an
\* exception and no descriptor
Raised(of, t, self, transcript, is_conversation_start) ==
  [op |-> "raised", of |-> of, thread |-> t, self |-> self, transcript |-> transcript,
   is_conversation_start |-> is_conversation_start]

\* the state before the first call, on the file system f
Start(f) ==
  /\ fs = f
  /\ analyzers = <<>>
  /\ _analyzer = 0
  /\ pc = [t \in Threads |-> "idle"]
  /\ built = [t \in Threads |-> 0]
  /\ analyzer = [t \in Threads |-> 0]
  /\ ret = NoCall
  /\ served = 0

Init == \E f \in SampleFileSystems : Start(f)

InitLoad == \E f \in FileSystems : Start(f)

InitConc == \E f \in ConcFileSystems : Start(f)

InitMalformed == \E f \in MalformedFileSystems : Start(f)

InitThemes == \E f \in ThemeFileSystems : Start(f)

InitMetrics == \E f \in MetricsFileSystems : Start(f)

InitDepth == \E f \in DepthFileSystems : Start(f)

\* a thread enters analyze_single_segment or get_cache_stats, which first
\* calls get_analyzer; the previous return value is gone
Call(t) ==
  /\ pc[t] = "idle"
  /\ pc' = [pc EXCEPT ![t] = "test"]
  /\ analyzer' = [analyzer EXCEPT ![t] = 0]
  /\ ret' = NoCall
  /\ UNCHANGED <<fs, analyzers, _analyzer, built>>

\* get_analyzer: if _analyzer is None
TestNone(t) ==
  /\ pc[t] = "test"
  /\ pc' = [pc EXCEPT ![t] = IF _analyzer = 0 THEN "construct" ELSE "return"]
  /\ UNCHANGED <<fs, analyzers, _analyzer, built, analyzer, ret>>

\* get_analyzer: HebrewEmotionAnalyzer(), which reads the files
Construct(t) ==
  /\ pc[t] = "construct"
  /\ analyzers' = Append(analyzers, load_config(fs))
  /\ built' = [built EXCEPT ![t] = Len(analyzers) + 1]
  /\ pc' = [pc EXCEPT ![t] = "store"]
  /\ UNCHANGED <<fs, _analyzer, analyzer, ret>>

\* get_analyzer: _analyzer = <the new instance>
Store(t) ==
  /\ pc[t] = "store"
  /\ _analyzer' = built[t]
  /\ built' = [built EXCEPT ![t] = 0]
  /\ pc' = [pc EXCEPT ![t] = "return"]
  /\ UNCHANGED <<fs, analyzers, analyzer, ret>>

\* get_analyzer: return _analyzer, bound to the caller's local analyzer
Return(t) ==
  /\ pc[t] = "return"
  /\ analyzer' = [analyzer EXCEPT ![t] = _analyzer]
  /\ pc' = [pc EXCEPT ![t] = "call"]
  /\ UNCHANGED <<fs, analyzers, _analyzer, built, ret>>

\* the rest of the module-level analyze_single_segment
ModuleAnalyze(t, transcript, is_conversation_start) ==
  /\ pc[t] = "call"
  /\ ret' = IF AnalysisRaises(analyzers[analyzer[t]], transcript)
            THEN Raised("analyze_single_segment", t, analyzer[t], transcript,
                        is_conversation_start)
            ELSE [op |-> "analyze_single_segment", thread |-> t, self |-> analyzer[t],
                  transcript |-> transcript,
                  is_conversation_start |-> is_conversation_start,
                  result |-> analyze_single_segment(analyzers[analyzer[t]], transcript,
                                                    is_conversation_start)]
  /\ analyzers' = [analyzers EXCEPT
                     ![analyzer[t]] = AfterAnalysis(analyzers[analyzer[t]], transcript)]
  /\ pc' = [pc EXCEPT ![t] = "idle"]
  /\ UNCHANGED <<fs, _analyzer, built, analyzer>>

\* get_analyzer().analyze_single_segment(transcript, is_conversation_start=...)
MethodAnalyze(t, transcript, is_conversation_start) ==
  /\ pc[t] = "call"
  /\ ret' = IF AnalysisRaises(analyzers[analyzer[t]], transcript)
            THEN Raised("method", t, analyzer[t], transcript, is_conversation_start)
            ELSE [op |-> "method", thread |-> t, self |-> analyzer[t],
                  transcript |-> transcript,
                  is_conversation_start |-> is_conversation_start,
                  result |-> HebrewEmotionAnalyzer_analyze_single_segment(
                               analyzers[analyzer[t]], transcript, is_conversation_start)]
  /\ analyzers' = [analyzers EXCEPT
                     ![analyzer[t]] = AfterAnalysis(analyzers[analyzer[t]], transcript)]
  /\ pc' = [pc EXCEPT ![t] = "idle"]
  /\ UNCHANGED <<fs, _analyzer, built, analyzer>>

\* the rest of get_cache_stats
CacheStats(t) ==
  /\ pc[t] = "call"
  /\ ret' = [op |-> "get_cache_stats", thread |-> t, self |-> analyzer[t],
             result |-> get_cache_stats(analyzers[analyzer[t]])]
  /\ pc' = [pc EXCEPT ![t] = "idle"]
  /\ UNCHANGED <<fs, analyzers, _analyzer, built, analyzer>>

\* the history variable is not kept
NoHistory == UNCHANGED served

\* the history variable counts the calls that complete
Counted == served' = Min(served + 1, MaxServed)

\* one caller, every transcript
Next ==
  \/ Call(1) /\ NoHistory
  \/ TestNone(1) /\ NoHistory
  \/ Construct(1) /\ NoHistory
  \/ Store(1) /\ NoHistory
  \/ Return(1) /\ NoHistory
  \/ \E transcript \in Texts, flag \in BOOLEAN :
       ModuleAnalyze(1, transcript, flag) /\ NoHistory
  \/ \E transcript \in Texts, flag \in BOOLEAN :
       MethodAnalyze(1, transcript, flag) /\ NoHistory
  \/ CacheStats(1) /\ NoHistory

Spec == Init /\ [][Next]_vars

\* one caller, every transcript, on the configuration files with unusual entries
SpecMalformed == InitMalformed /\ [][Next]_vars

\* one caller, the transcripts about themes
NextThemes ==
  \/ Call(1) /\ NoHistory
  \/ TestNone(1) /\ NoHistory
  \/ Construct(1) /\ NoHistory
  \/ Store(1) /\ NoHistory
  \/ Return(1) /\ NoHistory
  \/ \E transcript \in ThemeTexts, flag \in BOOLEAN :
       ModuleAnalyze(1, transcript, flag) /\ NoHistory
  \/ \E transcript \in ThemeTexts, flag \in BOOLEAN :
       MethodAnalyze(1, transcript, flag) /\ NoHistory
  \/ CacheStats(1) /\ NoHistory

SpecThemes == InitThemes /\ [][NextThemes]_vars

\* one caller, the transcripts about metrics
NextMetrics ==
  \/ Call(1) /\ NoHistory
  \/ TestNone(1) /\ NoHistory
  \/ Construct(1) /\ NoHistory
  \/ Store(1) /\ NoHistory
  \/ Return(1) /\ NoHistory
  \/ \E transcript \in MetricsTexts, flag \in BOOLEAN :
       ModuleAnalyze(1, transcript, flag) /\ NoHistory
  \/ \E transcript \in MetricsTexts, flag \in BOOLEAN :
       MethodAnalyze(1, transcript, flag) /\ NoHistory
  \/ CacheStats(1) /\ NoHistory

SpecMetrics == InitMetrics /\ [][NextMetrics]_vars

\* one caller, the transcripts about depth
NextDepth ==
  \/ Call(1) /\ NoHistory
  \/ TestNone(1) /\ NoHistory
  \/ Construct(1) /\ NoHistory
  \/ Store(1) /\ NoHistory
  \/ Return(1) /\ NoHistory
  \/ \E transcript \in DepthTexts, flag \in BOOLEAN :
       ModuleAnalyze(1, transcript, flag) /\ NoHistory
  \/ \E transcript \in DepthTexts, flag \in BOOLEAN :
       MethodAnalyze(1, transcript, flag) /\ NoHistory
  \/ CacheStats(1) /\ NoHistory

SpecDepth == InitDepth /\ [][NextDepth]_vars

\* one caller, few transcripts, the completed calls counted
NextLoad ==
  \/ Call(1) /\ NoHistory
  \/ TestNone(1) /\ NoHistory
  \/ Construct(1) /\ NoHistory
  \/ Store(1) /\ NoHistory
  \/ Return(1) /\ NoHistory
  \/ \E transcript \in FewTexts, flag \in BOOLEAN :
       ModuleAnalyze(1, transcript, flag) /\ Counted
  \/ \E transcript \in FewTexts, flag \in BOOLEAN :
       MethodAnalyze(1, transcript, flag) /\ Counted
  \/ CacheStats(1) /\ Counted

\* every file system, one caller, with history
SpecLoad == InitLoad /\ [][NextLoad]_vars

\* several threads, few transcripts
NextConc ==
  \/ \E t \in Threads : Call(t) /\ NoHistory
  \/ \E t \in Threads : TestNone(t) /\ NoHistory
  \/ \E t \in Threads : Construct(t) /\ NoHistory
  \/ \E t \in Threads : Store(t) /\ NoHistory
  \/ \E t \in Threads : Return(t) /\ NoHistory
  \/ \E t \in Threads, transcript \in ConcTexts, flag \in BOOLEAN :
       ModuleAnalyze(t, transcript, flag) /\ NoHistory
  \/ \E t \in Threads, transcript \in ConcTexts, flag \in BOOLEAN :
       MethodAnalyze(t, transcript, flag) /\ NoHistory
  \/ \E t \in Threads : CacheStats(t) /\ NoHistory

SpecConc == InitConc /\ [][NextConc]_vars

-----------------------------------------------------------------------------
(* Properties *)

\* the last completed call was an analysis call (method or module function)
IsAnalysis(r) == r.op \in {"analyze_single_segment", "method"}

\* the transcript is empty or consists of whitespace only
AllSpace(transcript) == \A i \in 1..Len(transcript) : IsSpace(transcript[i])

\* the placeholder label: in English and in its two Hebrew spellings
NeutralLabels ==
  { <<"n", "e", "u", "t", "r", "a", "l">>,
    <<"nun", "yod", "tet", "resh", "lamed", "yod">>,
    <<"nun", "yod", "yod", "tet", "resh", "lamed", "yod">> }

(* C1: for every transcript (empty and whitespace-only included) and every
   configuration the analyzer ends up with, the returned descriptor has an
   emotions list of length 1 to 3 that never holds the placeholder label
   neutral. *)
C1_EmotionsOneToThreeNeverNeutral ==
  IsAnalysis(ret) =>
    /\ Len(ret.result.emotions) \in 1..3
    /\ \A i \in 1..Len(ret.result.emotions) : ret.result.emotions[i] \notin NeutralLabels

\* "!" followed by the word for "no" under the working-directory configuration:
\* five categories score, four labels are candidates, three are returned
C1_Witness ==
  /\ ret.op = "method"
  /\ ret.transcript = <<"!", "lamed", "alef">>
  /\ fs[1].exists /\ fs[1].parses
  /\ Len(ret.result.detected_patterns) = 5
  /\ Len(ret.result.emotions) = 3

(* C2: for an empty or whitespace-only transcript the returned descriptor is
   exactly the canonical silence descriptor (emotions = [silence], confidence
   0.5, blur = shine = humor = 0, voice_intensity 1.0, no detected patterns,
   and none of the fields that scoring and selection produce), whatever the
   configuration and the is_conversation_start flag. *)
C2_BlankGivesCanonicalSilence ==
  (IsAnalysis(ret) /\ AllSpace(ret.transcript)) =>
    LET r == ret.result IN
    /\ DOMAIN r = {"emotions", "confidence", "blur", "shine", "humor",
                   "voice_intensity", "analysis_method", "detected_patterns"}
    /\ r.emotions = <<label_silence>>
    /\ r.confidence.num * 2 = r.confidence.den
    /\ r.blur = 0 /\ r.shine = 0 /\ r.humor = 0
    /\ r.voice_intensity = Scale
    /\ r.analysis_method = "empty_text"
    /\ r.detected_patterns = <<>>

\* two blanks, conversation start signalled, on a file configuration
C2_Witness ==
  /\ ret.op = "method"
  /\ ret.transcript = <<" ", " ">>
  /\ ret.is_conversation_start
  /\ fs[1].exists /\ fs[1].parses

(* C3: for all inputs (empty text included) the returned descriptor carries
   the integer fields blur in 0..12, shine in 0..10, humor in 0..10 and
   blobiness in 1..10. *)
C3_MetricsPresentAndInRange ==
  IsAnalysis(ret) =>
    LET r == ret.result IN
    /\ {"blur", "shine", "humor", "blobiness"} \subseteq DOMAIN r
    /\ r.blur \in 0..12
    /\ r.shine \in 0..10
    /\ r.humor \in 0..10
    /\ r.blobiness \in 1..10

\* the values of the spacing enumeration (far_away is spelled "far away")
SpacingValues == {"together", "close", "far away"}

(* C4: for all inputs (empty text included) the returned descriptor has a
   proximity and an auto_blob_spacing field, each one of together, close,
   far_away. *)
C4_SpacingFieldsPresentAndEnumerated ==
  IsAnalysis(ret) =>
    LET r == ret.result IN
    /\ {"proximity", "auto_blob_spacing"} \subseteq DOMAIN r
    /\ r.proximity \in SpacingValues
    /\ r.auto_blob_spacing \in SpacingValues

(* C5: confidence is always within [0.1, 1.0]: exactly 0.5 for an empty or
   whitespace-only text, exactly 0.3 when a non-empty text matches no
   category, and otherwise clamp((sum of the retained category scores /
   max(1, 0.1 * word count)) / 5.0, 0.1, 1.0). *)
C5_ConfidenceFormula ==
  IsAnalysis(ret) =>
    LET r == ret.result
        c == r.confidence
    IN
    /\ c.den > 0 /\ c.num * 10 >= c.den /\ c.num <= c.den
    /\ AllSpace(ret.transcript) => c.num * 2 = c.den
    /\ (~AllSpace(ret.transcript) /\ r.raw_scores = <<>>) => c.num * 10 = 3 * c.den
    /\ (~AllSpace(ret.transcript) /\ r.raw_scores # <<>>) =>
         LET total == SumSeq([i \in 1..Len(r.raw_scores) |-> r.raw_scores[i].score])
             words == WordCount(ret.transcript)
             \* total/Scale / max(1, words/10) / 5  =  vn / vd
             vn == total
             vd == (Scale \div 10) * (IF words > 10 THEN words ELSE 10) * 5
         IN  IF vn * 10 < vd THEN c.num * 10 = c.den
             ELSE IF vn > vd THEN c.num = c.den
             ELSE c.num * vd = vn * c.den

\* more than ten words and a confidence strictly between the clamps
C5_Witness ==
  /\ IsAnalysis(ret)
  /\ WordCount(ret.transcript) > 10
  /\ ret.result.raw_scores # <<>>
  /\ ret.result.confidence.num * 10 > ret.result.confidence.den
  /\ ret.result.confidence.num < ret.result.confidence.den

(* C6: determinism: for a fixed loaded configuration every analysis call
   returns the descriptor that the same transcript and flag give on the
   analyzer as load_config built it, whichever calls were completed before;
   so any two calls with the same arguments return identical descriptors. *)
C6_ResultDependsOnArgumentsOnly ==
  IsAnalysis(ret) =>
    ret.result =
      IF ret.op = "method"
      THEN HebrewEmotionAnalyzer_analyze_single_segment(
             load_config(fs), ret.transcript, ret.is_conversation_start)
      ELSE analyze_single_segment(
             load_config(fs), ret.transcript, ret.is_conversation_start)

\* a call after an earlier one, scored by a compiled pattern of the cache
C6_Witness ==
  /\ IsAnalysis(ret)
  /\ served >= 2
  /\ ret.transcript = <<"het", "het", "het">>
  /\ Len(analyzers[ret.self].patterns_cache) > 0
  /\ "humor_indicators" \in {ret.result.detected_patterns[i] :
                               i \in 1..Len(ret.result.detected_patterns)}

(* C7: when several threads make their first call to get_analyzer
   concurrently, the analyzer is constructed exactly once and every caller
   receives that same instance. *)
C7_ConstructedOnceAndShared ==
  /\ Len(analyzers) <= 1
  /\ \A t, u \in Threads :
       (analyzer[t] # 0 /\ analyzer[u] # 0) => analyzer[t] = analyzer[u]

(* C8: once an analyzer has been constructed, no sequence or interleaving of
   analyze_single_segment and get_cache_stats calls modifies its
   configuration or its compiled pattern cache. *)
C8_AnalyzersNeverModified ==
  [][\A i \in 1..Len(analyzers) :
       i <= Len(analyzers') /\ analyzers'[i] = analyzers[i]]_vars

\* an analysis of a non-blank transcript has returned on an analyzer with
\* compiled patterns while another thread is between get_analyzer and its call
C8_Witness ==
  /\ IsAnalysis(ret)
  /\ ~AllSpace(ret.transcript)
  /\ Len(analyzers[ret.self].patterns_cache) > 0
  /\ \E u \in Threads : u # ret.thread /\ pc[u] = "call"

(* C9: whenever conversation start is signalled with a non-empty transcript,
   auto_blob_spacing is far_away, for the analyzer method and for the
   module-level analyze_single_segment function alike. *)
C9_ConversationStartIsFarAway ==
  (IsAnalysis(ret) /\ ret.is_conversation_start /\ ~AllSpace(ret.transcript)) =>
    ret.result.auto_blob_spacing = "far away"

\* no candidate file exists
NoCandidateExists == \A p \in CandidatePaths : ~fs[p].exists

\* the file load_config opens (the first of the first two that exists, else
\* the third) exists and is not JSON
ChosenFileUnparseable ==
  \E p \in CandidatePaths :
    /\ fs[p].exists /\ ~fs[p].parses
    /\ \A q \in 1..(p - 1) : ~fs[q].exists

\* the categories of a configuration, in order
CategoriesOf(config) ==
  [i \in 1..Len(HebrewPatterns(config)) |-> HebrewPatterns(config)[i].category]

BuiltInCategories ==
  <<"humor_indicators", "agreement_indicators", "disagreement_indicators">>

(* C10: constructing the analyzer never raises: when no candidate file
   exists or the chosen file fails to parse, every construction yields an
   analyzer whose configuration is the built-in ruleset with exactly the
   three categories humor_indicators, agreement_indicators and
   disagreement_indicators, and analysis calls against it return
   descriptors scored from those categories. *)
C10_FallbackOnMissingOrUnparseable ==
  (NoCandidateExists \/ ChosenFileUnparseable) =>
    /\ \A t \in Threads : pc[t] = "store" => built[t] \in 1..Len(analyzers)
    /\ \A i \in 1..Len(analyzers) :
         CategoriesOf(analyzers[i].config) = BuiltInCategories
    /\ IsAnalysis(ret) =>
         /\ "emotions" \in DOMAIN ret.result
         /\ \A i \in 1..Len(ret.result.detected_patterns) :
              InList(ret.result.detected_patterns[i], BuiltInCategories)

\* with no file at all, an analysis has scored a built-in category
C10_Witness ==
  /\ NoCandidateExists
  /\ IsAnalysis(ret)
  /\ ret.result.detected_patterns # <<>>

\* the first candidate path whose file exists and parses, 0 when there is none
FirstUsable(f) ==
  IF \E p \in CandidatePaths : f[p].exists /\ f[p].parses
  THEN CHOOSE p \in CandidatePaths :
         /\ f[p].exists /\ f[p].parses
         /\ \A q \in 1..(p - 1) : ~(f[q].exists /\ f[q].parses)
  ELSE 0

(* C11: load_config tries the candidate paths in the fixed order, and the
   configuration in effect afterwards is the content of the first candidate
   that both exists and parses; the built-in ruleset is in effect only when
   no candidate both exists and parses. *)
C11_FirstExistingParseableWins ==
  \A i \in 1..Len(analyzers) :
    analyzers[i].config =
      IF FirstUsable(fs) = 0 THEN FallbackConfig ELSE fs[FirstUsable(fs)].content

\* the raw value of a category is a mapping
IsMapping(item) == item.data.kind = "dict"

\* the mapping-valued categories of a parsed configuration file, in order
MappingItems(content) == SelectSeq(HebrewPatterns(content), IsMapping)

\* the mapping-valued categories that carry a patterns list
HasPatternList(item) == IsMapping(item) /\ "patterns" \in DOMAIN item.data

(* C12: a category whose raw value is not a mapping (a list, string, number
   or null) is dropped on its own: it never appears in detected_patterns,
   while the configuration in effect is still the file's, every other
   category of the file that has patterns is compiled, and constructing and
   analysing do not fail because of it. *)
C12_NonMappingCategoryDroppedAlone ==
  LET f == fs[config_path(fs)] IN
  (f.exists /\ f.parses) =>
    /\ \A i \in 1..Len(analyzers) :
         /\ analyzers[i].config = f.content
         /\ [k \in 1..Len(analyzers[i].patterns_cache) |->
               analyzers[i].patterns_cache[k].category]
              = [k \in 1..Len(SelectSeq(HebrewPatterns(f.content), HasPatternList)) |->
                   SelectSeq(HebrewPatterns(f.content), HasPatternList)[k].category]
    /\ (IsAnalysis(ret) /\ ~AllSpace(ret.transcript)) =>
         \A k \in 1..Len(ret.result.detected_patterns) :
           \E j \in 1..Len(MappingItems(f.content)) :
             MappingItems(f.content)[j].category = ret.result.detected_patterns[k]

\* the last completed call returned a descriptor for a non-blank transcript
ScoredCall(r) == IsAnalysis(r) /\ ~AllSpace(r.transcript)

\* the regex compiles
IsValid(pattern) == pattern.valid

\* the category's value is a mapping whose weight, if any, is a number
WellWeighted(item) ==
  IsMapping(item) /\ TypeOf(item.data, "weight", "float") = "float"

\* w * (configured words contained in the text, case-insensitively)
\*  + 1.2 w * (configured phrases contained) + 0.8 w * (findall matches of the
\* compiled patterns), in thousandths
ClaimedScore(text, data, compiled) ==
  LET w == IF "weight" \in DOMAIN data THEN data.weight ELSE Scale
      ws == IF "words" \in DOMAIN data THEN data.words ELSE <<>>
      ps == IF "phrases" \in DOMAIN data THEN data.phrases ELSE <<>>
      low == Lower(Strip(text))
  IN  w * Cardinality({i \in 1..Len(ws) : Contains(Lower(ws[i]), low)})
    + ((12 * w) \div 10) * Cardinality({i \in 1..Len(ps) : Contains(Lower(ps[i]), low)})
    + ((8 * w) \div 10) * SumSeq([k \in 1..Len(compiled) |-> Findall(compiled[k], Strip(text))])

\* the analyzer's configuration is the content of the file load_config opened
FromFile(a) ==
  LET f == fs[config_path(fs)] IN
  f.exists /\ f.parses /\ a.config = f.content

(* C13: in a configuration loaded from a file, a regex that fails to compile
   is skipped alone: the other patterns of its category are compiled in
   their original order, the category's words and phrases still score (with
   the patterns that compile), and the other categories are compiled and
   scored as configured. *)
C13_InvalidRegexSkippedAlone ==
  \A i \in 1..Len(analyzers) :
    LET a == analyzers[i]
        items == HebrewPatterns(a.config)
    IN  FromFile(a) => \A j \in 1..Len(items) :
          LET valid == IF HasPatternList(items[j])
                       THEN SelectSeq(items[j].data.patterns, IsValid) ELSE <<>>
              compiled == [k \in 1..Len(valid) |-> [lit |-> Lower(valid[k].regex)]]
          IN  /\ HasPatternList(items[j]) =>
                   /\ InCache(a.patterns_cache, items[j].category)
                   /\ CacheAt(a.patterns_cache, items[j].category) = compiled
              /\ (ScoredCall(ret) /\ ret.self = i /\ WellWeighted(items[j])) =>
                   LET expected == ClaimedScore(ret.transcript, items[j].data, compiled) IN
                   IF expected > 0
                   THEN /\ Scored(ret.result.raw_scores, items[j].category)
                        /\ ScoreOf(ret.result.raw_scores, items[j].category) = expected
                   ELSE ~Scored(ret.result.raw_scores, items[j].category)

\* the category whose second regex does not compile scores 1.4 on laughter
\* followed by "!": its phrase, its first regex and its third regex all count
C13_Witness ==
  /\ ScoredCall(ret)
  /\ fs[1].exists
  /\ ret.transcript = <<"het", "het", "het", "!">>
  /\ Len(CacheAt(analyzers[ret.self].patterns_cache, "humor_indicators")) = 2
  /\ ScoreOf(ret.result.raw_scores, "humor_indicators") = 1400

(* C14: the engine is total: on every configuration that load_config takes
   from a file (files with a non-numeric weight, a non-list words value or
   non-string list elements included) and for every transcript, a call of
   analyze_single_segment ends by returning a descriptor, never by raising. *)
C14_AnalysisNeverRaises ==
  \A i \in 1..Len(analyzers) :
    (FromFile(analyzers[i]) /\ ret.op # "none" /\ ret.op # "get_cache_stats"
       /\ ret.self = i) =>
      /\ IsAnalysis(ret)
      /\ "emotions" \in DOMAIN ret.result

\* the spacing values in order of closeness
ProximityRank(p) == IF p = "together" THEN 2 ELSE IF p = "close" THEN 1 ELSE 0

\* the text with one more phrase, added as a further word
Added(text, phrase) == text \o <<" ">> \o phrase

(* C15: monotonicity of proximity: for a fixed configuration and text,
   adding one of the strong-agreement phrases to the text never lowers the
   proximity result (never close -> far_away, never together -> close or
   far_away), because it never decreases net agreement. *)
C15_StrongAgreementNeverLowersProximity ==
  ScoredCall(ret) =>
    \A k \in 1..Len(strong_agreement) :
      ProximityRank(
        HebrewEmotionAnalyzer_analyze_single_segment(
          analyzers[ret.self], Added(ret.transcript, strong_agreement[k]), FALSE).proximity)
      >= ProximityRank(ret.result.proximity)

\* the number of distinct phrases of the list that the text holds
PhrasesPresent(lst, transcript) ==
  Cardinality({i \in 1..Len(lst) : Contains(lst[i], Lower(Strip(transcript)))})

\* the emotions selected from the category scores, before any is forced
SelectedEmotions(r) == _map_categories_to_emotions(r.result.raw_scores)

(* C16: if the text holds at least one small-talk phrase, blobiness equals
   max(1, 2 - 3.0 * (number of distinct small-talk phrases present)), which
   is exactly 1, whatever existential, struggle, vulnerability, transition
   or relationship phrases, ellipses, long words or question marks co-occur
   and whatever emotions were selected. *)
C16_SmallTalkForcesBlobinessOne ==
  (ScoredCall(ret) /\ PhrasesPresent(small_talk_phrases, ret.transcript) > 0) =>
    /\ ret.result.blobiness * Scale =
         Max(Scale, 2 * Scale - 3 * Scale * PhrasesPresent(small_talk_phrases, ret.transcript))
    /\ ret.result.blobiness = 1

\* a small-talk phrase after four existential themes (depth 12)
C16_Witness ==
  /\ ScoredCall(ret)
  /\ PhrasesPresent(small_talk_phrases, ret.transcript) = 1
  /\ PhrasesPresent(existential_themes, ret.transcript) = 4
  /\ total_depth_score(Strip(ret.transcript), SelectedEmotions(ret)) >= 12000
  /\ ret.result.blobiness = 1

(* C17: with no small-talk phrase in the text, blobiness is
   clamp(round(b), 1, 10) with b chosen by the total depth score d: d >= 8
   gives 7 + 0.3 d, d >= 5 gives 5 + 0.4 d, d >= 2 gives 2 + 0.5 d, otherwise
   1 + 0.3 * (number of selected emotions); a text with five distinct
   existential themes has blobiness in 8..10. *)
C17_DepthBands ==
  (ScoredCall(ret) /\ PhrasesPresent(small_talk_phrases, ret.transcript) = 0) =>
    LET d == total_depth_score(Strip(ret.transcript), SelectedEmotions(ret))
        \* b in thousandths, and its nearest integer (ties to even)
        b == IF d >= 8000 THEN 7000 + (3 * d) \div 10
             ELSE IF d >= 5000 THEN 5000 + (4 * d) \div 10
             ELSE IF d >= 2000 THEN 2000 + (5 * d) \div 10
             ELSE 1000 + 300 * Len(SelectedEmotions(ret))
        lower == b \div Scale
        nearest == IF 2 * (b % Scale) < Scale THEN lower
                   ELSE IF 2 * (b % Scale) > Scale THEN lower + 1
                   ELSE lower + (lower % 2)
    IN  /\ ret.result.blobiness = Max(1, Min(10, nearest))
        /\ PhrasesPresent(existential_themes, ret.transcript) >= 5 =>
             ret.result.blobiness \in 8..10

\* five distinct existential themes: depth 15, b = 11.5, clamped to 10
C17_Witness ==
  /\ ScoredCall(ret)
  /\ PhrasesPresent(small_talk_phrases, ret.transcript) = 0
  /\ PhrasesPresent(existential_themes, ret.transcript) = 5
  /\ ret.result.blobiness = 10

\* the text holds a run of three or more consecutive laughter glyphs
LaughterRun(transcript) == Contains(<<"het", "het", "het">>, Lower(Strip(transcript)))

\* the text holds one of the fixed strong-humor phrases
StrongHumor(transcript) == PhrasesPresent(strong_humor_words, transcript) > 0

(* C18: humor gating: humor is 0 whenever the text holds no strong-humor
   phrase and no run of three or more laughter glyphs, however high the
   humor_indicators and amusement_indicators scores are; and humor is
   greater than 0 whenever a strong-humor phrase or such a run is present. *)
C18_HumorGated ==
  ScoredCall(ret) =>
    IF StrongHumor(ret.transcript) \/ LaughterRun(ret.transcript)
    THEN ret.result.humor > 0
    ELSE ret.result.humor = 0

\* two laughter glyphs only: humor_indicators scores 3.0 and
\* amusement_indicators 2.0, and humor is 0
C18_Witness ==
  /\ ScoredCall(ret)
  /\ ~StrongHumor(ret.transcript) /\ ~LaughterRun(ret.transcript)
  /\ ScoreOf(ret.result.raw_scores, "humor_indicators") = 3000
  /\ ScoreOf(ret.result.raw_scores, "amusement_indicators") = 2000
  /\ ret.result.humor = 0

\* the compiled patterns _analyze_category finds for the category
CompiledFor(a, category) ==
  IF InCache(a.patterns_cache, category) THEN CacheAt(a.patterns_cache, category) ELSE <<>>

(* C19: for a mapping-valued category with weight w (default 1.0) the score
   of a text is w * (configured words contained in the lowercased text)
   + 1.2 w * (configured phrases contained) + 0.8 w * (sum over the
   category's compiled patterns of the findall matches); a word or phrase
   counts at most once however often it occurs, a regex once per match.  A
   score above 0 is the one the descriptor reports for the category. *)
C19_CategoryScoreFormula ==
  ScoredCall(ret) =>
    LET a == analyzers[ret.self]
        items == HebrewPatterns(a.config)
    IN  \A j \in 1..Len(items) :
          WellWeighted(items[j]) =>
            LET score == ClaimedScore(ret.transcript, items[j].data,
                                      CompiledFor(a, items[j].category))
            IN  score > 0 =>
                  /\ Scored(ret.result.raw_scores, items[j].category)
                  /\ ScoreOf(ret.result.raw_scores, items[j].category) = score

\* six laughter glyphs: the configured word of two glyphs occurs three times
\* and counts once (1.0), the regex matches three times (3 * 0.8)
C19_Witness ==
  /\ ScoredCall(ret)
  /\ fs[1].exists /\ fs[1].parses
  /\ ret.transcript = <<"het", "het", "het", "het", "het", "het">>
  /\ Count(ret.transcript, <<"het", "het">>) = 3
  /\ ScoreOf(ret.result.raw_scores, "humor_indicators") = 3400

\* the position of the category in the configuration
ConfigIndex(a, category) ==
  CHOOSE j \in 1..Len(HebrewPatterns(a.config)) :
    HebrewPatterns(a.config)[j].category = category

(* C20: in every descriptor for non-empty text every value stored in
   raw_scores is > 0, raw_scores holds exactly the categories whose computed
   score is > 0 (a category with a negative weight included: it is never
   stored), and detected_patterns is the list of the raw_scores keys, in
   configuration order. *)
C20_RawScoresArePositiveScores ==
  ScoredCall(ret) =>
    LET a == analyzers[ret.self]
        items == HebrewPatterns(a.config)
        raw == ret.result.raw_scores
    IN  /\ \A k \in 1..Len(raw) : raw[k].score > 0
        /\ {raw[k].category : k \in 1..Len(raw)} =
             {items[j].category : j \in
                {j \in 1..Len(items) :
                   /\ WellWeighted(items[j])
                   /\ ClaimedScore(ret.transcript, items[j].data,
                                   CompiledFor(a, items[j].category)) > 0}}
        /\ ret.result.detected_patterns = [k \in 1..Len(raw) |-> raw[k].category]
        /\ \A k, l \in 1..Len(raw) :
             k < l => ConfigIndex(a, raw[k].category) < ConfigIndex(a, raw[l].category)

\* "yes" and "no" together: the category with weight -1.0 computes -1.8 and
\* is not stored, the two categories after it are, in configuration order
C20_Witness ==
  /\ ScoredCall(ret)
  /\ fs[1].exists
  /\ ClaimedScore(ret.transcript,
                  HebrewPatterns(analyzers[ret.self].config)[4].data,
                  CompiledFor(analyzers[ret.self], "sarcasm_indicators")) = -1800
  /\ ret.result.detected_patterns = <<"agreement_indicators", "disagreement_indicators">>

\* the category is scored above the threshold 0.5 and has a label in the table
Qualified(raw, category) ==
  Scored(raw, category) /\ ScoreOf(raw, category) > 500 /\ Mapped(category)

\* category c1 is ranked before c2: a higher score, or the same score and an
\* earlier position in the loaded configuration
RankedBefore(a, raw, c1, c2) ==
  \/ ScoreOf(raw, c1) > ScoreOf(raw, c2)
  \/ ScoreOf(raw, c1) = ScoreOf(raw, c2) /\ ConfigIndex(a, c1) < ConfigIndex(a, c2)

\* the qualified categories of the scores
QualifiedCategories(raw) ==
  {raw[k].category : k \in {k \in 1..Len(raw) : Qualified(raw, raw[k].category)}}

\* the best-ranked qualified category that carries the label
BestCategory(a, raw, label) ==
  CHOOSE c \in QualifiedCategories(raw) :
    /\ LabelOf(c) = label
    /\ \A d \in QualifiedCategories(raw) :
         (LabelOf(d) = label /\ d # c) => RankedBefore(a, raw, c, d)

\* some qualified category carries the label
Ranked(raw, label) == \E c \in QualifiedCategories(raw) : LabelOf(c) = label

(* C21: emotion selection ranks categories by score, descending, and two
   categories with equal score in the order in which they appear in the
   loaded configuration; the primary emotion (index 0) is the label of the
   earliest-configured category among the highest-scoring mapped categories
   above the threshold. *)
C21_TiesBreakByConfigurationOrder ==
  ScoredCall(ret) =>
    LET a == analyzers[ret.self]
        raw == ret.result.raw_scores
        em == ret.result.emotions
    IN  /\ \A i, j \in 1..Len(em) :
             (i < j /\ Ranked(raw, em[i]) /\ Ranked(raw, em[j])) =>
               RankedBefore(a, raw, BestCategory(a, raw, em[i]), BestCategory(a, raw, em[j]))
        /\ QualifiedCategories(raw) # {} =>
             \E c \in QualifiedCategories(raw) :
               /\ \A d \in QualifiedCategories(raw) : d # c => RankedBefore(a, raw, c, d)
               /\ em[1] = LabelOf(c)

\* three categories tie at 1.0; surprise is configured before frustration
\* and follows it alphabetically
C21_Witness ==
  /\ ScoredCall(ret)
  /\ ScoreOf(ret.result.raw_scores, "excitement_indicators") = 1000
  /\ ScoreOf(ret.result.raw_scores, "surprise_indicators") = 1000
  /\ ScoreOf(ret.result.raw_scores, "frustration_indicators") = 1000
  /\ ConfigIndex(analyzers[ret.self], "surprise_indicators")
       < ConfigIndex(analyzers[ret.self], "frustration_indicators")
  /\ ret.result.emotions = <<LabelOf("excitement_indicators"),
                             LabelOf("surprise_indicators"),
                             LabelOf("frustration_indicators")>>

\* the labels of the qualified categories
RankedLabelSet(raw) == {LabelOf(c) : c \in QualifiedCategories(raw)}

\* the rank of a label: one more than the number of labels whose best
\* category is ranked before its own
LabelRank(a, raw, label) ==
  1 + Cardinality({l \in RankedLabelSet(raw) :
                     /\ l # label
                     /\ RankedBefore(a, raw, BestCategory(a, raw, l),
                                     BestCategory(a, raw, label))})

(* C22: only categories with a score strictly above 0.5 that are in the
   category-to-label table contribute a label in the ranking pass, categories
   absent from the table are skipped, the emotions list never holds the same
   label twice, and a label shared by several categories appears at the rank
   of its highest-ranked category. *)
C22_RankingPassLabels ==
  ScoredCall(ret) =>
    LET a == analyzers[ret.self]
        raw == ret.result.raw_scores
        em == ret.result.emotions
    IN  /\ \A i, j \in 1..Len(em) : i # j => em[i] # em[j]
        /\ \A l \in RankedLabelSet(raw) :
             LabelRank(a, raw, l) <= 3 => em[LabelRank(a, raw, l)] = l
        /\ \A i \in 1..Len(em) :
             \/ em[i] \in RankedLabelSet(raw) /\ LabelRank(a, raw, em[i]) = i
             \/ /\ em[i] = label_approval
                /\ ScoreOf(raw, "agreement_indicators") > 1000
                /\ i > Cardinality(RankedLabelSet(raw))
             \/ /\ em[i] = label_annoyance
                /\ ScoreOf(raw, "disagreement_indicators") > 1000
                /\ i > Cardinality(RankedLabelSet(raw))
             \/ /\ RankedLabelSet(raw) = {}
                /\ ScoreOf(raw, "agreement_indicators") <= 1000
                /\ ScoreOf(raw, "disagreement_indicators") <= 1000
                /\ Len(em) = 1

\* a category scored 0.25 contributes nothing, and two categories that share
\* a label, both scored 1.0, contribute it once
C22_Witness ==
  /\ ScoredCall(ret)
  /\ ScoreOf(ret.result.raw_scores, "curiosity_indicators") = 250
  /\ ScoreOf(ret.result.raw_scores, "joy_indicators") = 1000
  /\ ScoreOf(ret.result.raw_scores, "happiness_indicators") = 1000
  /\ LabelOf("joy_indicators") = LabelOf("happiness_indicators")
  /\ ret.result.emotions = <<LabelOf("joy_indicators")>>

\* the last completed call returned a descriptor whose emotions were selected
\* from the category scores (none was forced)
SelectedCall ==
  /\ ScoredCall(ret)
  /\ \/ RankedLabelSet(ret.result.raw_scores) # {}
     \/ ScoreOf(ret.result.raw_scores, "agreement_indicators") > 1000
     \/ ScoreOf(ret.result.raw_scores, "disagreement_indicators") > 1000

\* 1 if the override appends its label after the ranking pass, else 0
Appends(raw, category, label) ==
  IF ScoreOf(raw, category) > 1000 /\ label \notin RankedLabelSet(raw) THEN 1 ELSE 0

(* C23: after the ranking pass the two overrides are applied in fixed order
   and only by appending: approval if agreement_indicators scores above 1.0
   and approval is not yet in the list, then annoyance if
   disagreement_indicators scores above 1.0 and annoyance is not yet in the
   list; the list is then cut to its first 3 labels, so an override never
   reorders or displaces a label of the ranking pass. *)
C23_OverridesAppendThenTruncate ==
  SelectedCall =>
    LET a == analyzers[ret.self]
        raw == ret.result.raw_scores
        em == ret.result.emotions
        n == Cardinality(RankedLabelSet(raw))
        plusA == Appends(raw, "agreement_indicators", label_approval)
        plusD == Appends(raw, "disagreement_indicators", label_annoyance)
    IN  /\ Len(em) = Min(3, n + plusA + plusD)
        /\ \A i \in 1..Min(3, n) :
             em[i] \in RankedLabelSet(raw) /\ LabelRank(a, raw, em[i]) = i
        /\ (plusA = 1 /\ n + 1 <= 3) => em[n + 1] = label_approval
        /\ (plusD = 1 /\ n + plusA + 1 <= 3) => em[n + plusA + 1] = label_annoyance

\* one label of the ranking pass, then both overrides, in that order
C23_Witness ==
  /\ SelectedCall
  /\ ScoreOf(ret.result.raw_scores, "agreement_indicators") = 1500
  /\ ScoreOf(ret.result.raw_scores, "disagreement_indicators") = 1500
  /\ ScoreOf(ret.result.raw_scores, "frustration_indicators") = 1000
  /\ ret.result.emotions =
       <<LabelOf("frustration_indicators"), label_approval, label_annoyance>>

\* the character occurs in the stripped transcript
HasChar(c, transcript) == \E i \in 1..Len(Strip(transcript)) : Strip(transcript)[i] = c

\* the label the fixed-priority cascade gives the transcript
CascadeLabel(transcript) ==
  IF HasChar("?", transcript) THEN label_curiosity
  ELSE IF HasChar("!", transcript) THEN label_excitement
  ELSE IF Len(Strip(transcript)) < 10 THEN label_affection
  ELSE label_happiness

(* C24: the fallback cascade runs exactly when emotion selection yields an
   empty list for a non-empty text, and then gives exactly one label by fixed
   priority: '?' in the text gives curiosity, else '!' gives excitement, else
   a stripped length below 10 gives affection, else happiness.  When
   selection yields a label, the emotions are exactly the selected list. *)
C24_FallbackCascade ==
  ScoredCall(ret) =>
    LET raw == ret.result.raw_scores
        em == ret.result.emotions
    IN  IF SelectedCall
        THEN /\ Len(em) >= 1
             /\ \A i \in 1..Len(em) :
                  \/ em[i] \in RankedLabelSet(raw)
                  \/ em[i] = label_approval /\ ScoreOf(raw, "agreement_indicators") > 1000
                  \/ em[i] = label_annoyance /\ ScoreOf(raw, "disagreement_indicators") > 1000
        ELSE em = <<CascadeLabel(ret.transcript)>>

\* a text of ten characters or more without '?' or '!' that no category
\* scores: the last branch of the cascade
C24_Witness ==
  /\ ScoredCall(ret)
  /\ ~SelectedCall
  /\ ret.result.raw_scores = <<>>
  /\ ~HasChar("?", ret.transcript) /\ ~HasChar("!", ret.transcript)
  /\ Len(Strip(ret.transcript)) >= 10
  /\ ret.result.emotions = <<label_happiness>>

\* the blur score the claim describes, in thousandths, on the transcript as
\* it was passed
ClaimedBlurScore(raw, transcript) ==
    ScoreOf(raw, "blur_indicators")
  + 1500 * SumSeq([i \in 1..Len(unclear_patterns) |-> Count(transcript, unclear_patterns[i])])
  + 1000 * (Count(transcript, <<"alef", "mem", "mem">>)
              + Count(transcript, <<"alef", "he", "he", "he">>))
  + 800 * Count(transcript, <<"?", "?">>)
  + 1000 * Count(transcript, <<"?", "?", "?">>)

(* C25: blur equals min(12, floor(blur_indicators score + 1.5 * (occurrences
   of the five unclear-speech literals) + 1.0 * (occurrences of the two
   repetition markers) + 0.8 * count('??') + 1.0 * count('???'))), the counts
   being non-overlapping occurrence counts in the original text; the result
   is never negative. *)
C25_BlurFormula ==
  ScoredCall(ret) =>
    LET score == ClaimedBlurScore(ret.result.raw_scores, ret.transcript)
        floor == CHOOSE n \in 0..(score \div Scale + 1) :
                   n * Scale <= score /\ score < (n + 1) * Scale
    IN  /\ score >= 0
        /\ ret.result.blur = Min(12, floor)
        /\ ret.result.blur >= 0

\* an unclear question followed by two more question marks: 5.4 for the
\* configured phrase, 1.5 for the literal, 0.8 for '??' and 1.0 for '???'
C25_Witness ==
  /\ ScoredCall(ret)
  /\ ScoreOf(ret.result.raw_scores, "blur_indicators") = 5400
  /\ Count(ret.transcript, <<"mem", "he", "?">>) = 1
  /\ Count(ret.transcript, <<"?", "?">>) = 1
  /\ Count(ret.transcript, <<"?", "?", "?">>) = 1
  /\ ClaimedBlurScore(ret.result.raw_scores, ret.transcript) = 8700
  /\ ret.result.blur = 8

RECURSIVE CutFrom(_, _, _)
\* s[i:] with each occurrence of p replaced by a bar
CutFrom(s, p, i) ==
  IF i > Len(s) THEN <<>>
  ELSE IF MatchAt(p, s, i) THEN <<"|">> \o CutFrom(s, p, i + Len(p))
  ELSE <<s[i]>> \o CutFrom(s, p, i + 1)

RECURSIVE CutAll(_, _, _)
\* s with the occurrences of lst[k], lst[k+1], ... replaced by bars
CutAll(s, lst, k) ==
  IF k > Len(lst) THEN s ELSE CutAll(CutFrom(s, lst[k], 1), lst, k + 1)

\* the spacing of a net agreement, in thousandths
ProximityBand(net) ==
  IF net >= 2000 THEN "together" ELSE IF net >= -500 THEN "close" ELSE "far away"

(* C26: proximity is decided from net = (agreement_indicators score + 2.0
   per strong-agreement phrase present) - (disagreement_indicators score +
   2.0 per strong-disagreement phrase present): net >= 2.0 gives together,
   otherwise net >= -0.5 gives close, otherwise far away; a
   strong-disagreement phrase present in the text raises only the
   disagreement side, so the agreement side counts the strong-agreement
   phrases found outside the strong-disagreement phrases. *)
C26_ProximityFromNetAgreement ==
  ScoredCall(ret) =>
    LET raw == ret.result.raw_scores
        low == Lower(Strip(ret.transcript))
        agreement == ScoreOf(raw, "agreement_indicators")
                       + 2000 * Hits(strong_agreement, CutAll(low, strong_disagreement, 1))
        disagreement == ScoreOf(raw, "disagreement_indicators")
                          + 2000 * Hits(strong_disagreement, low)
    IN  ret.result.proximity = ProximityBand(agreement - disagreement)

\* the spacing the claim's first-match-wins rules give
ClaimedSpacing(raw, transcript) ==
  LET low == Lower(Strip(transcript))
      agreement == ScoreOf(raw, "agreement_indicators")
      approval == ScoreOf(raw, "approval_indicators")
      disagreement == ScoreOf(raw, "disagreement_indicators")
      net == agreement + approval - disagreement
      mutual == PhrasesPresent(mutual_understanding_phrases, transcript)
      acceptance == PhrasesPresent(acceptance_phrases, transcript)
      general == PhrasesPresent(general_conversation_phrases, transcript)
  IN  CASE mutual >= 1 /\ net >= 1500 -> "together"
        [] ~(mutual >= 1 /\ net >= 1500) /\ (acceptance >= 1 \/ net >= 500) -> "close"
        [] /\ ~(mutual >= 1 /\ net >= 1500) /\ ~(acceptance >= 1 \/ net >= 500)
           /\ (general >= 1 \/ net < -500 \/ disagreement > 0) -> "far away"
        [] OTHER -> "close"

\* the caller of the call that returned did not signal a conversation start
StartNotSignalled(r) == ~r.is_conversation_start

(* C27: when conversation start is not signalled, auto_blob_spacing is
   decided first-match-wins from net = agreement + approval - disagreement
   and the hit counts of the three phrase lists: (mutual-understanding count
   >= 1 and net >= 1.5) gives together; else (acceptance count >= 1 or
   net >= 0.5) gives close; else (general/opening count >= 1 or net < -0.5 or
   disagreement > 0) gives far away; else close. *)
C27_AutoBlobSpacingRules ==
  (ScoredCall(ret) /\ StartNotSignalled(ret)) =>
    ret.result.auto_blob_spacing = ClaimedSpacing(ret.result.raw_scores, ret.transcript)

\* disagreement 1.0 against approval 1.0: net 0 with no phrase of any list,
\* and the third rule gives far away because disagreement is above 0
C27_Witness ==
  /\ ScoredCall(ret) /\ ret.op = "method" /\ ~ret.is_conversation_start
  /\ ScoreOf(ret.result.raw_scores, "disagreement_indicators") = 1000
  /\ ScoreOf(ret.result.raw_scores, "approval_indicators") = 1000
  /\ ScoreOf(ret.result.raw_scores, "agreement_indicators") = 0
  /\ PhrasesPresent(mutual_understanding_phrases, ret.transcript) = 0
  /\ PhrasesPresent(acceptance_phrases, ret.transcript) = 0
  /\ PhrasesPresent(general_conversation_phrases, ret.transcript) = 0
  /\ ret.result.auto_blob_spacing = "far away"

\* the labels the emotion selector gives for the emotions of the intense
\* subset that have a category (anger, sadness, fear, anxiety, love)
IntenseLabels ==
  {LabelOf("anger_indicators"), LabelOf("sadness_indicators"), LabelOf("fear_indicators"),
   LabelOf("anxiety_indicators"), LabelOf("love_indicators")}

\* the depth score the claim describes: the themes and the linguistic
\* complexity of the text, plus 2.0 for every selected intense emotion
ClaimedDepth(transcript, selected) ==
    total_depth_score(Strip(transcript), <<>>)
  + 2000 * Cardinality({i \in 1..Len(selected) : selected[i] \in IntenseLabels})

(* C28: in an analysis call every emotion chosen by the emotion selector
   that belongs to the intense subset (anger, sadness, fear, grief, anxiety,
   love, ecstasy, despair) adds 2.0 to the blobiness depth score, so without
   a small-talk phrase the blobiness is the one of the depth bands for the
   depth of the text plus 2.0 per selected intense emotion. *)
C28_IntenseEmotionsDeepen ==
  (ScoredCall(ret) /\ PhrasesPresent(small_talk_phrases, ret.transcript) = 0) =>
    LET selected == SelectedEmotions(ret)
        d == ClaimedDepth(ret.transcript, selected)
        b == IF d >= 8000 THEN 7000 + (3 * d) \div 10
             ELSE IF d >= 5000 THEN 5000 + (4 * d) \div 10
             ELSE IF d >= 2000 THEN 2000 + (5 * d) \div 10
             ELSE 1000 + 300 * Len(selected)
        lower == b \div Scale
        nearest == IF 2 * (b % Scale) < Scale THEN lower
                   ELSE IF 2 * (b % Scale) > Scale THEN lower + 1
                   ELSE lower + (lower % 2)
    IN  ret.result.blobiness = Max(1, Min(10, nearest))

(* C29: whenever load_config ends with the built-in ruleset in effect (also
   when the failure occurs part-way through the pattern compilation of a
   file that parsed), the compiled pattern cache holds no patterns from the
   rejected file, so every later category score depends only on the words
   of the built-in ruleset. *)
C29_FallbackCacheHoldsNoPatterns ==
  /\ \A i \in 1..Len(analyzers) :
       analyzers[i].config = FallbackConfig => analyzers[i].patterns_cache = <<>>
  /\ (ScoredCall(ret) /\ analyzers[ret.self].config = FallbackConfig) =>
       \A k \in 1..Len(ret.result.raw_scores) :
         LET category == ret.result.raw_scores[k].category
             data == HebrewPatterns(FallbackConfig)[ConfigIndex(analyzers[ret.self], category)].data
         IN  ret.result.raw_scores[k].score = ClaimedScore(ret.transcript, data, <<>>)

\* the transcripts a returned descriptor is compared with: one piece each
DepthReferenceTexts == TextsOver(DepthFragments, 1) \ {<<>>}

\* the total depth score of the descriptor's text
DepthOf(transcript, result) ==
  total_depth_score(Strip(transcript), _map_categories_to_emotions(result.raw_scores))

\* the descriptor the same analyzer gives the transcript
DescriptorFor(self, transcript) ==
  HebrewEmotionAnalyzer_analyze_single_segment(analyzers[self], transcript, FALSE)

\* the text holds no small-talk phrase
NoSmallTalk(transcript) == PhrasesPresent(small_talk_phrases, transcript) = 0

\* the two descriptors have the same number of selected emotions
SameSelectedCount(r1, r2) ==
  Len(_map_categories_to_emotions(r1.raw_scores)) = Len(_map_categories_to_emotions(r2.raw_scores))

(* C30: for texts without a small-talk phrase and with the same number of
   selected emotions, blobiness is monotonically non-decreasing in the total
   depth score, also across the band boundaries at depth 2, 5 and 8: a deeper
   text never gets a smaller blobiness. *)
C30_BlobinessMonotoneInDepth ==
  (ScoredCall(ret) /\ NoSmallTalk(ret.transcript)) =>
    \A t \in DepthReferenceTexts :
      LET other == DescriptorFor(ret.self, t) IN
      (NoSmallTalk(t) /\ SameSelectedCount(ret.result, other)) =>
        /\ DepthOf(ret.transcript, ret.result) >= DepthOf(t, other) =>
             ret.result.blobiness >= other.blobiness
        /\ DepthOf(ret.transcript, ret.result) <= DepthOf(t, other) =>
             ret.result.blobiness <= other.blobiness

\* a text of depth exactly 5.0 (blobiness 7), with texts of depth 3.0
\* (blobiness 4) and of depth 5.5 (blobiness 7) to compare with
C30_Witness ==
  /\ ScoredCall(ret) /\ NoSmallTalk(ret.transcript)
  /\ DepthOf(ret.transcript, ret.result) = 5000
  /\ ret.result.blobiness = 7
  /\ \E t \in DepthReferenceTexts :
       /\ NoSmallTalk(t) /\ SameSelectedCount(ret.result, DescriptorFor(ret.self, t))
       /\ DepthOf(t, DescriptorFor(ret.self, t)) = 3000
       /\ DescriptorFor(ret.self, t).blobiness = 4
  /\ \E t \in DepthReferenceTexts :
       /\ NoSmallTalk(t) /\ SameSelectedCount(ret.result, DescriptorFor(ret.self, t))
       /\ DepthOf(t, DescriptorFor(ret.self, t)) = 5500
       /\ DescriptorFor(ret.self, t).blobiness = 7

====
